---- MODULE Spec2Model ----
(***************************************************************************)
(* Model of the sparkySMTPProxy protocol bridge.                           *)
(*                                                                         *)
(* One Session (src/unnamed/part_000, the variant with blockUpstream) is   *)
(* driven by the protocol engine through its phase methods.  The upstream  *)
(* connector (smtpproxy.Client) is an external library: each of its        *)
(* operations answers with a reply chosen by the environment.              *)
(***************************************************************************)
EXTENDS Integers, Sequences, FiniteSets, TLC

\* ------------------------------------------------------------------------
\* Bounds of the model
\* ------------------------------------------------------------------------
MaxCalls == 3

\* ------------------------------------------------------------------------
\* Program constants
\* ------------------------------------------------------------------------
upstreamBlockMsg == "Unable to handle messages at the moment, sorry"
upstreamBlockCode == 500
AlreadySecureCode == 220
AlreadySecureMsg == "2.0.0 Ready to start TLS, upstream is already secure"
CopyErrorMsg == "DATA io.Copy error"
smtpCRLF == "\r\n"

\* the nil error, the nil writer and the writer handed out by upstream.Data()
NoErr == "<nil>"
NilWriter == "<nil>"
TheWriter == "w"

\* ------------------------------------------------------------------------
\* What the upstream relay may answer
\* ------------------------------------------------------------------------
\* a reply of the connector: the relay accepts, the relay rejects, or the
\* transport fails before any structured response (code 0)
Replies == {[code |-> 250, msg |-> "2.0.0 OK", err |-> NoErr],
            [code |-> 550, msg |-> "5.7.1 denied", err |-> "SMTP error 550"],
            [code |-> 0, msg |-> "", err |-> "EOF"]}
\* what the relay may answer to STARTTLS: ready (code 220), refused, or the
\* transport fails
TLSReplies == {[code |-> 220, msg |-> "2.0.0 Ready to start TLS", err |-> NoErr],
               [code |-> 550, msg |-> "5.7.1 denied", err |-> "SMTP error 550"],
               [code |-> 0, msg |-> "", err |-> "EOF"]}
Errs == {r.err : r \in Replies}
CapSets == {{"PIPELINING"}, {"PIPELINING", "STARTTLS"}}
Args == {"", "x"}

\* ------------------------------------------------------------------------
\* Messages: what mail.ReadMessage and multipart.Reader make of the client's
\* bytes.  An entity has header fields (raw: the line as the client sent it,
\* k and v: the canonical key and the value the parser gives) and a body:
\* chunks of bytes (leaf), sub-parts (multi) or an embedded message (msg).
\* ------------------------------------------------------------------------
Field(k, v) == [raw |-> k \o ": " \o v \o smtpCRLF, k |-> k, v |-> v]
\* a field the client wrote otherwise than "Key: value": the parser gives the
\* key in canonical case and the value without the white space around it
RawField(raw, k, v) == [raw |-> raw, k |-> k, v |-> v]

PlainMsg == [hdr |-> <<Field("Content-Type", "text/plain")>>,
             kind |-> "leaf", data |-> <<"hello" \o smtpCRLF>>]

UntypedMsg == [hdr |-> <<Field("Subject", "hi")>>,
               kind |-> "leaf", data |-> <<"hello" \o smtpCRLF>>]

MixedMsg == [hdr |-> <<Field("Content-Type", "multipart/mixed; boundary=xyz")>>,
             kind |-> "multi",
             parts |-> <<[hdr |-> <<Field("Content-Type", "text/plain")>>,
                          kind |-> "leaf", data |-> <<"a">>],
                         [hdr |-> <<Field("Content-Type", "text/plain"),
                                    Field("Content-Transfer-Encoding", "7bit")>>,
                          kind |-> "leaf", data |-> <<"b">>]>>]

EmbeddedMsg == [hdr |-> <<Field("Content-Type", "message/rfc822")>>,
                kind |-> "msg", inner |-> PlainMsg]

Messages == {PlainMsg, UntypedMsg, MixedMsg, EmbeddedMsg}

\* the order in which Go ranges over the header map
HeaderOrders == {"fwd", "rev"}

RECURSIVE Flat(_)
Flat(chunks) == IF chunks = <<>> THEN "" ELSE Head(chunks) \o Flat(Tail(chunks))

\* Header.Get: the first value of the key, "" when there is none
HeaderGet(hdr, key) ==
    IF \E i \in 1..Len(hdr) : hdr[i].k = key
    THEN hdr[CHOOSE i \in 1..Len(hdr) :
                /\ hdr[i].k = key
                /\ \A j \in 1..(i - 1) : hdr[j].k # key].v
    ELSE ""

\* mime.ParseMediaType on the Content-Type values of Messages
ParseMediaType(v) ==
    CASE v = "" ->
            [mediaType |-> "", boundary |-> "", err |-> "mime: no media type"]
      [] v = "text/plain" ->
            [mediaType |-> "text/plain", boundary |-> "", err |-> NoErr]
      [] v = "text/html" ->
            [mediaType |-> "text/html", boundary |-> "", err |-> NoErr]
      [] v = "message/rfc822" ->
            [mediaType |-> "message/rfc822", boundary |-> "", err |-> NoErr]
      [] v = "multipart/mixed; boundary=xyz" ->
            [mediaType |-> "multipart/mixed", boundary |-> "xyz", err |-> NoErr]
      [] v = "multipart/alternative; boundary=in" ->
            [mediaType |-> "multipart/alternative", boundary |-> "in", err |-> NoErr]

RECURSIVE RawChunks(_), RawParts(_, _, _)
\* the bytes of an entity as the client sent them, in chunks (lines)
RawChunks(e) ==
    [i \in 1..Len(e.hdr) |-> e.hdr[i].raw] \o <<smtpCRLF>> \o
    (IF e.kind = "leaf" THEN e.data
     ELSE IF e.kind = "msg" THEN RawChunks(e.inner)
     ELSE RawParts(e.parts, 1,
                   ParseMediaType(HeaderGet(e.hdr, "Content-Type")).boundary))

RawParts(parts, i, b) ==
    IF i > Len(parts) THEN <<"--" \o b \o "--" \o smtpCRLF>>
    ELSE <<"--" \o b \o smtpCRLF>> \o RawChunks(parts[i]) \o <<smtpCRLF>>
         \o RawParts(parts, i + 1, b)

\* the body of an entity as its reader delivers it
BodyBytes(e) == Flat(SubSeq(RawChunks(e), Len(e.hdr) + 2, Len(RawChunks(e))))

HasPrefix(s, p) == Len(s) >= Len(p) /\ SubSeq(s, 1, Len(p)) = p

Reverse(q) == [i \in 1..Len(q) |-> q[Len(q) + 1 - i]]

\* ------------------------------------------------------------------------
\* The codecs the transcoder puts around a text/html part.  Bytes are
\* one-character strings; the bodies of the model are printable ASCII, CR, LF
\* ------------------------------------------------------------------------
base64Alphabet == "ABCDEFGHIJKLMNOPQRSTUVWXYZabcdefghijklmnopqrstuvwxyz0123456789+/"
AsciiUpTo95 ==
    " !\"#$%&'()*+,-./0123456789:;<=>?@ABCDEFGHIJKLMNOPQRSTUVWXYZ[\\]^_"
AsciiFrom97 == "abcdefghijklmnopqrstuvwxyz{|}~"

\* the byte with value n (a grave accent, 96, has no string literal here and
\* occurs in no body of the model)
Chr(n) == CASE n = 10 -> "\n"
            [] n = 13 -> "\r"
            [] n \in 32..95 -> SubSeq(AsciiUpTo95, n - 31, n - 31)
            [] n \in 97..126 -> SubSeq(AsciiFrom97, n - 96, n - 96)

\* the value of a base64 digit, -1 for a byte outside the alphabet
base64Value(c) ==
    IF \E i \in 1..64 : SubSeq(base64Alphabet, i, i) = c
    THEN (CHOOSE i \in 1..64 : SubSeq(base64Alphabet, i, i) = c) - 1
    ELSE -1

RECURSIVE StripNewlines(_)
StripNewlines(s) ==
    IF s = "" THEN ""
    ELSE IF SubSeq(s, 1, 1) \in {"\r", "\n"} THEN StripNewlines(SubSeq(s, 2, Len(s)))
    ELSE SubSeq(s, 1, 1) \o StripNewlines(SubSeq(s, 2, Len(s)))

RECURSIVE base64Quads(_)
\* base64.StdEncoding: four digits give three bytes, '=' pads the last group
base64Quads(s) ==
    IF s = "" THEN [out |-> "", err |-> NoErr]
    ELSE IF Len(s) < 4 THEN [out |-> "", err |-> "illegal base64 data"]
    ELSE LET a == base64Value(SubSeq(s, 1, 1))
             b == base64Value(SubSeq(s, 2, 2))
             pad3 == SubSeq(s, 3, 3) = "="
             pad4 == SubSeq(s, 4, 4) = "="
             c == IF pad3 THEN 0 ELSE base64Value(SubSeq(s, 3, 3))
             d == IF pad4 THEN 0 ELSE base64Value(SubSeq(s, 4, 4))
             n == a * 262144 + b * 4096 + c * 64 + d
             bytes == Chr(n \div 65536)
                      \o (IF pad3 THEN "" ELSE Chr((n \div 256) % 256))
                      \o (IF pad4 THEN "" ELSE Chr(n % 256))
             rest == base64Quads(SubSeq(s, 5, Len(s)))
         IN  IF a < 0 \/ b < 0 \/ c < 0 \/ d < 0 \/ (pad3 /\ ~pad4)
                \/ (pad4 /\ Len(s) > 4)
             THEN [out |-> "", err |-> "illegal base64 data"]
             ELSE [out |-> bytes \o rest.out, err |-> rest.err]

\* base64.NewDecoder(base64.StdEncoding, part): line breaks are skipped
base64NewDecoder(s) == base64Quads(StripNewlines(s))

\* the two hex digits quoted-printable writes for a byte it must encode
qpHex(b) == CASE b = "=" -> "3D" [] b = " " -> "20" [] b = "\t" -> "09"

RECURSIVE quotedprintableNewReader(_)
\* quotedprintable.NewReader(part): =XX gives the byte, a '=' at the end of a
\* line joins it to the next
quotedprintableNewReader(s) ==
    IF s = "" THEN ""
    ELSE IF SubSeq(s, 1, 1) # "="
    THEN SubSeq(s, 1, 1) \o quotedprintableNewReader(SubSeq(s, 2, Len(s)))
    ELSE IF SubSeq(s, 2, 3) = "\r\n"
    THEN quotedprintableNewReader(SubSeq(s, 4, Len(s)))
    ELSE (CHOOSE b \in {"=", " ", "\t"} : qpHex(b) = SubSeq(s, 2, 3))
         \o quotedprintableNewReader(SubSeq(s, 4, Len(s)))

\* ------------------------------------------------------------------------
\* The destination writer: the bytes it has taken, the number of Write calls
\* made on it, and the call at which it starts to fail (0: never); a sticky
\* writer keeps failing, as a closed connection does
\* ------------------------------------------------------------------------
NewDst(failAt, sticky) ==
    [out |-> "", nW |-> 0, failAt |-> failAt, sticky |-> sticky]
GoodDst == NewDst(0, FALSE)
WriteErr(k) == "write " \o ToString(k) \o " failed"
Fails(d) == /\ d.failAt # 0
            /\ \/ d.nW + 1 = d.failAt
               \/ d.sticky /\ d.nW + 1 > d.failAt

\* dst.Write(s) / io.WriteString(dst, s)
dstWrite(d, s) ==
    IF Fails(d)
    THEN [dst |-> [d EXCEPT !.nW = @ + 1], n |-> 0, err |-> WriteErr(d.nW + 1)]
    ELSE [dst |-> [d EXCEPT !.nW = @ + 1, !.out = @ \o s],
          n |-> Len(s), err |-> NoErr]

RECURSIVE ioCopy(_, _)
\* io.Copy(dst, src): one Write per chunk read, stopping at the first error
ioCopy(d, chunks) ==
    IF chunks = <<>> THEN [dst |-> d, n |-> 0, err |-> NoErr]
    ELSE LET r == dstWrite(d, Head(chunks))
         IN  IF r.err # NoErr THEN r
             ELSE [ioCopy(r.dst, Tail(chunks)) EXCEPT !.n = @ + r.n]

\* ------------------------------------------------------------------------
\* quotedprintable.Writer: the current line is held back until a line break
\* (hard or soft) flushes it to the writer underneath; Close, which flushes
\* the last line, is a separate call
\* ------------------------------------------------------------------------
lineMaxLen == 76
quotedprintableNewWriter == [line |-> "", cr |-> FALSE]
qpOk(qw, d) == [qw |-> qw, dst |-> d, err |-> NoErr]

\* the state after the line was handed to the writer underneath, r its result
qpFlushed(qw, r) ==
    [qw |-> IF r.err = NoErr THEN [qw EXCEPT !.line = ""] ELSE qw,
     dst |-> r.dst, err |-> r.err]
qpFlush(qw, d) == qpFlushed(qw, dstWrite(d, qw.line))
qpInsertCRLF(qw, d) == qpFlush([qw EXCEPT !.line = @ \o "\r\n"], d)
qpInsertSoftLineBreak(qw, d) == qpInsertCRLF([qw EXCEPT !.line = @ \o "="], d)

\* "if err != nil { return err }" between two steps of the writer
qpThen(r, K(_, _)) == IF r.err # NoErr THEN r ELSE K(r.qw, r.dst)

qpEncode(qw, d, b) ==
    qpThen(IF lineMaxLen - 1 - Len(qw.line) < 3
           THEN qpInsertSoftLineBreak(qw, d) ELSE qpOk(qw, d),
           LAMBDA q, dd : qpOk([q EXCEPT !.line = @ \o "=" \o qpHex(b)], dd))

LastByte(line) == SubSeq(line, Len(line), Len(line))
\* white space at the end of a line is written encoded
qpCheckLastByte(qw, d) ==
    IF qw.line # "" /\ LastByte(qw.line) \in {" ", "\t"}
    THEN qpEncode([qw EXCEPT !.line = SubSeq(@, 1, Len(@) - 1)], d,
                  LastByte(qw.line))
    ELSE qpOk(qw, d)

\* Writer.write at a CR or LF: the line is ended and flushed, once for CRLF
qpLineBreak(qw, d, b) ==
    IF qw.cr /\ b = "\n" THEN qpOk([qw EXCEPT !.cr = FALSE], d)
    ELSE qpThen(qpCheckLastByte([qw EXCEPT !.cr = (b = "\r") \/ @], d),
                qpInsertCRLF)

\* the end of the run of plain bytes of p that starts at i: the run stops
\* before the next '=', CR or LF and where the line is full
RunEnd(qw, p, i) ==
    LET stops == {j \in i..Len(p) : SubSeq(p, j, j) \in {"=", "\r", "\n"}}
        stop == IF stops = {} THEN Len(p) + 1
                ELSE CHOOSE j \in stops : \A k \in stops : j <= k
        room == lineMaxLen - 1 - Len(qw.line)
    IN  IF stop - i <= room THEN stop - 1 ELSE i + room - 1
\* the plain bytes p[i..e] join the line
qpAppendRun(qw, p, i, e) ==
    [qw EXCEPT !.line = @ \o SubSeq(p, i, e), !.cr = FALSE]

RECURSIVE qpWriteFrom(_, _, _, _, _), qpNext(_, _, _, _, _),
          qpAfterRun(_, _, _, _, _, _)
\* Writer.Write(p) from byte i on; n0 bytes were accepted before the current
\* run of plain bytes.  Of the model's bytes only '=' is encoded outright; a
\* plain byte that finds the line full is preceded by a soft line break
qpWriteFrom(qw, d, p, i, n0) ==
    IF i > Len(p) THEN [qw |-> qw, dst |-> d, n |-> Len(p), err |-> NoErr]
    ELSE IF SubSeq(p, i, i) = "="
    THEN qpNext(qpEncode(qw, d, "="), p, i + 1, i, i - 1)
    ELSE IF SubSeq(p, i, i) \in {"\r", "\n"}
    THEN qpNext(qpLineBreak(qw, d, SubSeq(p, i, i)), p, i + 1, n0, n0)
    ELSE IF Len(qw.line) = lineMaxLen - 1
    THEN qpNext(qpInsertSoftLineBreak(qw, d), p, i, n0, n0)
    ELSE qpAfterRun(qw, d, p, i, RunEnd(qw, p, i), n0)

\* r is the result of a step of Write: its error ends Write with n bytes
\* accepted, otherwise Write goes on at byte i
qpNext(r, p, i, n0, n) ==
    IF r.err # NoErr THEN [qw |-> r.qw, dst |-> r.dst, n |-> n, err |-> r.err]
    ELSE qpWriteFrom(r.qw, r.dst, p, i, n0)

\* the run of plain bytes p[i..e] has joined the line
qpAfterRun(qw, d, p, i, e, n0) ==
    qpWriteFrom(qpAppendRun(qw, p, i, e), d, p, e + 1, n0)
qpWrite(qw, d, p) == qpWriteFrom(qw, d, p, 1, 0)

RECURSIVE ioCopyQP(_, _, _), qpCopyRest(_, _)
\* io.Copy into a quoted-printable writer that wraps d
ioCopyQP(qw, d, chunks) ==
    IF chunks = <<>> THEN [qw |-> qw, dst |-> d, n |-> 0, err |-> NoErr]
    ELSE qpCopyRest(qpWrite(qw, d, Head(chunks)), Tail(chunks))
\* r is the result of the Write of one chunk, rest the chunks still to read
qpCopyRest(r, rest) ==
    IF r.err # NoErr THEN r
    ELSE [ioCopyQP(r.qw, r.dst, rest) EXCEPT !.n = @ + r.n]

\* (mutant) the part is copied without its last chunk
handlePlainPartShort(d, e) == ioCopy(d, SubSeq(e.data, 1, Len(e.data) - 1))

\* handlePlainPart: io.Copy of the part
handlePlainPart(d, e) == ioCopy(d, e.data)

\* handleHTMLPart: io.Copy of the part, here into the quoted-printable
\* writer handleMessagePart put in front of dst
handleHTMLPart(qw, d, chunks) == ioCopyQP(qw, d, chunks)

\* multipart.Reader.NextPart: a part declared quoted-printable comes back
\* without that header field and with its body decoded
NextPart(p) ==
    IF HeaderGet(p.hdr, "Content-Transfer-Encoding") = "quoted-printable"
       /\ p.kind = "leaf"
    THEN [p EXCEPT !.hdr = SelectSeq(@, LAMBDA f : f.k # "Content-Transfer-Encoding"),
                   !.data = <<quotedprintableNewReader(Flat(@))>>]
    ELSE p

\* multipart.Writer.CreatePart with the two fields handleMultiPart sets,
\* written in sorted key order; every part gets a new Writer
CreatePart(bound, cType, cte) ==
    "--" \o bound \o smtpCRLF
    \o "Content-Transfer-Encoding: " \o cte \o smtpCRLF
    \o "Content-Type: " \o cType \o smtpCRLF
    \o smtpCRLF

Preamble == "This is a multi-part message in MIME format." \o smtpCRLF

\* what a decoder put in front of the part delivers
DecodedChunks(r) ==
    [chunks |-> IF r.out = "" THEN <<>> ELSE <<r.out>>, err |-> r.err]
\* the reader handleMessagePart copies a text/html part from
htmlReader(e, cte) ==
    IF cte = "base64" THEN DecodedChunks(base64NewDecoder(Flat(e.data)))
    ELSE IF cte = "quoted-printable"
    THEN DecodedChunks([out |-> quotedprintableNewReader(Flat(e.data)),
                        err |-> NoErr])
    ELSE [chunks |-> e.data, err |-> NoErr]
\* io.Copy's result: the error of the write, else the error of the read
htmlResult(c, readErr) ==
    [dst |-> c.dst, n |-> c.n, err |-> IF c.err # NoErr THEN c.err ELSE readErr]
\* dst = quotedprintable.NewWriter(dst); handleHTMLPart(dst, part): the
\* writer is never closed
htmlCopy(d, src) ==
    htmlResult(handleHTMLPart(quotedprintableNewWriter, d, src.chunks), src.err)

RECURSIVE mailCopy(_, _, _), headersWritten(_, _, _), blankWritten(_, _, _, _),
          handleMessageBody(_, _, _), handleMessagePart(_, _, _, _, _),
          handleMultiPart(_, _, _, _, _, _), partCreated(_, _, _, _, _, _, _),
          partCopied(_, _, _, _, _, _)

\* handleMessagePart: text/html is decoded and goes through a
\* quoted-printable writer
handleMessagePart(d, e, cType, cte, ord) ==
    LET mt == ParseMediaType(cType)
    IN  IF mt.err # NoErr THEN [dst |-> d, n |-> 0, err |-> mt.err]
        ELSE IF HasPrefix(mt.mediaType, "text/html")
        THEN htmlCopy(d, htmlReader(e, cte))
        ELSE IF HasPrefix(mt.mediaType, "multipart/")
        THEN LET w == dstWrite(d, Preamble)
             IN  handleMultiPart(w.dst, e.parts, 1, mt.boundary, ord, w.n)
        ELSE IF HasPrefix(mt.mediaType, "message/rfc822")
        THEN mailCopy(d, e.inner, ord)
        ELSE handlePlainPart(d, e)

\* handleMultiPart after its first write: the loop over mr.NextPart() from
\* part i on with bytesWritten so far, then the terminating boundary.  The
\* err of the first write and of the newline after a part is dropped
handleMultiPart(d, parts, i, bound, ord, bytesWritten) ==
    IF i > Len(parts)
    THEN LET w == dstWrite(d, "--" \o bound \o smtpCRLF)
         IN  [dst |-> w.dst, n |-> bytesWritten + w.n, err |-> w.err]
    ELSE LET p == NextPart(parts[i])
             cType == HeaderGet(p.hdr, "Content-Type")
             cte == HeaderGet(p.hdr, "Content-Transfer-Encoding")
             outCte == IF HasPrefix(cType, "text/html") THEN "quoted-printable" ELSE cte
         IN  partCreated(dstWrite(d, CreatePart(bound, cType, outCte)),
                         p, parts, i, bound, ord, bytesWritten)

\* the loop body after pWrt.CreatePart(ph), cp its write
partCreated(cp, p, parts, i, bound, ord, bytesWritten) ==
    IF cp.err # NoErr THEN [dst |-> cp.dst, n |-> bytesWritten, err |-> cp.err]
    ELSE partCopied(handleMessagePart(cp.dst, p,
                        HeaderGet(p.hdr, "Content-Type"),
                        HeaderGet(p.hdr, "Content-Transfer-Encoding"), ord),
                    parts, i, bound, ord, bytesWritten)

\* the loop body after handleMessagePart, r its result
partCopied(r, parts, i, bound, ord, bytesWritten) ==
    IF r.err # NoErr THEN [dst |-> r.dst, n |-> bytesWritten + r.n, err |-> r.err]
    ELSE LET nl == dstWrite(r.dst, smtpCRLF)
         IN  handleMultiPart(nl.dst, parts, i + 1, bound, ord,
                             bytesWritten + r.n + nl.n)

\* handleMessageBody
handleMessageBody(d, e, ord) ==
    handleMessagePart(d, e, HeaderGet(e.hdr, "Content-Type"),
                      HeaderGet(e.hdr, "Content-Transfer-Encoding"), ord)

RECURSIVE WriteHeaders(_, _, _)
\* the loop over message.Header: one write per field, the first error ends it
WriteHeaders(d, h, i) ==
    IF i > Len(h) THEN [dst |-> d, n |-> 0, err |-> NoErr]
    ELSE LET w == dstWrite(d, h[i].k \o ": " \o h[i].v \o smtpCRLF)
         IN  IF w.err # NoErr THEN w
             ELSE [WriteHeaders(w.dst, h, i + 1) EXCEPT !.n = @ + w.n]

\* mailCopy: the header fields in map order, a blank line, the body
mailCopy(d, e, ord) ==
    headersWritten(WriteHeaders(d, IF ord = "rev" THEN Reverse(e.hdr) ELSE e.hdr, 1),
                   e, ord)
\* mailCopy after the header loop, h its result
headersWritten(h, e, ord) ==
    IF h.err # NoErr THEN h
    ELSE blankWritten(dstWrite(h.dst, smtpCRLF), h.n, e, ord)
\* mailCopy after the blank line, bl its write
blankWritten(bl, hn, e, ord) ==
    IF bl.err # NoErr THEN [dst |-> bl.dst, n |-> hn + bl.n, err |-> bl.err]
    ELSE [handleMessageBody(bl.dst, e, ord) EXCEPT !.n = @ + hn + bl.n]

VARIABLES
    requireUpstreamTLS,  \* Backend.requireUpstreamTLS
    upstream,            \* Session.upstream: "nil" or "client"
    blockUpstream,       \* Session.blockUpstream
    isTLS,               \* second result of upstream.TLSConnectionState()
    caps,                \* upstream.Capabilities()
    DataResponseCode,    \* upstream.DataResponseCode
    DataResponseMsg,     \* upstream.DataResponseMsg
    writer,              \* the upstream body writer: "none", "open", "closed"
    panicked,            \* a phase call hit the nil connector
    nCalls,              \* phase calls made so far
    last,                \* the last phase call that returned
    dialErr,             \* err of smtpproxy.Dial in Backend.Init
    initErr,             \* the error Backend.Init returns with the Session
    backends,            \* several sessions: the Backend values, by name
    sess,                \* several sessions: the Session values, by name
    nServed,             \* several sessions: phase calls served so far
    theErr,              \* Error Translator: the error e, as it stands
    errGiven,            \* Error Translator: e as errToSmtpErr was given it
    smtpErr,             \* Error Translator: what errToSmtpErr returned
    translated,          \* Error Translator: errToSmtpErr has returned
    ls,                  \* Line Splitter: the linesplitter (len, count, sep)
    lsW,                 \* Line Splitter: the bytes its writer w has received
    lsIn,                \* Line Splitter: the bytes the caller has to write
    lsPos,               \* Line Splitter: how many of them were handed to Write
    lsPieces,            \* Line Splitter: the lengths of the Write calls made
    lsRet,               \* Line Splitter: n returned by the last Write
    lsClosed,            \* Line Splitter: Close was called
    lsHung,              \* Line Splitter: a Write is in its loop for ever
    mail,                \* Transcoder: the message src delivers
    hdrOrder,            \* Transcoder: the order Go ranges over message.Header
    copied,              \* Transcoder: what mailCopy wrote to dst and returned
    dst,                 \* Transcoder: the destination writer
    login,               \* Login session: the Session and its upstream client
    boot                 \* main: how far startup has come, and its inputs

sessionVars == <<requireUpstreamTLS, upstream, blockUpstream, isTLS, caps,
                 DataResponseCode, DataResponseMsg, writer, panicked, nCalls,
                 last, dialErr, initErr>>

serverVars == <<backends, sess, nServed>>

errVars == <<theErr, errGiven, smtpErr, translated>>

lsVars == <<ls, lsW, lsIn, lsPos, lsPieces, lsRet, lsClosed, lsHung>>

copyVars == <<mail, hdrOrder, copied, dst>>
loginVars == <<login>>
mainVars == <<boot>>

vars == <<sessionVars, serverVars, errVars, lsVars, copyVars, loginVars, mainVars>>

\* the variables of a part of the program that is not running
Idle == "idle"
SessionIdle ==
    /\ requireUpstreamTLS = Idle /\ upstream = Idle /\ blockUpstream = Idle
    /\ isTLS = Idle /\ caps = Idle /\ DataResponseCode = Idle
    /\ DataResponseMsg = Idle /\ writer = Idle /\ panicked = Idle
    /\ nCalls = Idle /\ last = Idle /\ dialErr = Idle /\ initErr = Idle
ServerIdle == backends = Idle /\ sess = Idle /\ nServed = Idle
ErrIdle == theErr = Idle /\ errGiven = Idle /\ smtpErr = Idle /\ translated = Idle
LsIdle ==
    /\ ls = Idle /\ lsW = Idle /\ lsIn = Idle /\ lsPos = Idle /\ lsPieces = Idle
    /\ lsRet = Idle /\ lsClosed = Idle /\ lsHung = Idle
CopyIdle == mail = Idle /\ hdrOrder = Idle /\ copied = Idle /\ dst = Idle
LoginIdle == login = Idle
MainIdle == boot = Idle

\* ------------------------------------------------------------------------
\* Session and connector state as one value, for the handlers below
\* ------------------------------------------------------------------------
Cur == [blocked |-> blockUpstream, tls |-> isTLS, caps |-> caps,
        drc |-> DataResponseCode, drm |-> DataResponseMsg, writer |-> writer]

\* what every handler but Greet returns when blockUpstream is set
BlockedReturn == [code |-> upstreamBlockCode,
                  msg |-> "4.0.0 " \o upstreamBlockMsg,
                  err |-> upstreamBlockMsg]

\* upstream.StartTLS(tlsconfig): "it will report error if unsupported"
StartTLSAllowed(c, rep) == "STARTTLS" \in c \/ rep.err # NoErr

\* upstream.StartTLS(tlsconfig): on success the connection is secured; a
\* failure comes before the connection is wrapped in TLS (the relay refuses
\* the command) or after it (the handshake fails)
clientStartTLS(st, rep, tlsOnFail) ==
    [st EXCEPT !.tls = IF rep.err = NoErr THEN TRUE
                       ELSE IF "STARTTLS" \in st.caps THEN tlsOnFail ELSE FALSE]

\* upstream.Hello(host): a successful Hello refreshes the capability set
clientHello(st, rep, newCaps) ==
    [st EXCEPT !.caps = IF rep.err = NoErr THEN newCaps ELSE @]

\* upstream.Data(): the writer is handed out only with a nil error
clientData(st, rep) ==
    [st |-> [st EXCEPT !.writer = IF rep.err = NoErr THEN "open" ELSE @],
     rep |-> [w |-> IF rep.err = NoErr THEN TheWriter ELSE NilWriter] @@ rep]

\* w.Close(): the relay's answer to the body is cached in the connector
writerClose(st, closeRep) ==
    [st EXCEPT !.writer = "closed", !.drc = closeRep.code, !.drm = closeRep.msg]

SessionStartTLSRenegotiate(st, rep, tlsOnFail) ==
    IF st.blocked
    THEN [st |-> st, ups |-> <<>>, reps |-> <<>>, ret |-> BlockedReturn]
    ELSE [st |-> clientStartTLS(st, rep, tlsOnFail),
          ups |-> <<[op |-> "StartTLS"]>>, reps |-> <<rep>>,
          ret |-> rep]

\* Session.StartTLS
SessionStartTLS(st, rep, tlsOnFail) ==
    IF st.tls
    THEN [st |-> st, ups |-> <<>>, reps |-> <<>>,
          ret |-> [code |-> AlreadySecureCode, msg |-> AlreadySecureMsg, err |-> NoErr]]
    ELSE IF st.blocked
    THEN [st |-> st, ups |-> <<>>, reps |-> <<>>, ret |-> BlockedReturn]
    ELSE [st |-> clientStartTLS(st, rep, tlsOnFail),
          ups |-> <<[op |-> "StartTLS"]>>, reps |-> <<rep>>,
          ret |-> rep]

eagerFailureKeepReply(t, c) ==
    [st |-> t.st,
     ret |-> [caps |-> c, code |-> t.ret.code, msg |-> t.ret.msg, err |-> t.ret.err]]

\* Session.Greet, the eager StartTLS returned an error: block the session
eagerFailure(t, c) ==
    [st |-> [t.st EXCEPT !.blocked = TRUE],
     ret |-> [caps |-> c, code |-> upstreamBlockCode,
              msg |-> upstreamBlockMsg, err |-> upstreamBlockMsg]]

\* (mutant) the eager attempt is made whatever the Backend's flag says
eagerModeAlways(st, req) == ~st.tls

\* Session.Greet, the check for "eager" upstream TLS mode
eagerMode(st, req) == ~st.tls /\ req

\* Session.Greet
SessionGreet(st, req, hello, newCaps, rep, tlsOnFail) ==
    LET s1 == clientHello(st, hello, newCaps)
        u1 == <<[op |-> "Hello"]>>
        none == [tried |-> FALSE]
    IN  IF hello.err # NoErr
        THEN [st |-> s1, ups |-> u1, reps |-> <<hello>>, eager |-> none,
              ret |-> [caps |-> {}, code |-> hello.code, msg |-> hello.msg, err |-> hello.err]]
        ELSE IF eagerMode(s1, req)
        THEN LET t == SessionStartTLS(s1, rep, tlsOnFail)
                 f == eagerFailure(t, s1.caps)
                 e == [tried |-> TRUE, ret |-> t.ret]
             IN  IF t.ret.err # NoErr
                 THEN [st |-> f.st, ups |-> u1 \o t.ups, reps |-> <<hello>> \o t.reps,
                       eager |-> e, ret |-> f.ret]
                 ELSE [st |-> t.st, ups |-> u1 \o t.ups, reps |-> <<hello>> \o t.reps,
                       eager |-> e,
                       ret |-> [caps |-> s1.caps, code |-> t.ret.code,
                                msg |-> t.ret.msg, err |-> t.ret.err]]
        ELSE [st |-> s1, ups |-> u1, reps |-> <<hello>>, eager |-> none,
              ret |-> [caps |-> s1.caps, code |-> hello.code, msg |-> hello.msg, err |-> hello.err]]

\* the command line Passthru sends
Joined(cmd, arg) == IF arg # "" THEN cmd \o " " \o arg ELSE cmd

PassthruOneShotBlock(st, expectcode, cmd, arg, rep) ==
    IF st.blocked
    THEN [st |-> [st EXCEPT !.blocked = FALSE], ups |-> <<>>, reps |-> <<>>,
          ret |-> BlockedReturn]
    ELSE [st |-> st,
          ups |-> <<[op |-> "MyCmd", expect |-> expectcode, line |-> Joined(cmd, arg)]>>,
          reps |-> <<rep>>,
          ret |-> rep]

PassthruAlwaysJoin(st, expectcode, cmd, arg, rep) ==
    IF st.blocked
    THEN [st |-> st, ups |-> <<>>, reps |-> <<>>, ret |-> BlockedReturn]
    ELSE [st |-> st,
          ups |-> <<[op |-> "MyCmd", expect |-> expectcode, line |-> cmd \o " " \o arg]>>,
          reps |-> <<rep>>,
          ret |-> rep]

\* Session.Passthru
Passthru(st, expectcode, cmd, arg, rep) ==
    IF st.blocked
    THEN [st |-> st, ups |-> <<>>, reps |-> <<>>, ret |-> BlockedReturn]
    ELSE [st |-> st,
          ups |-> <<[op |-> "MyCmd", expect |-> expectcode, line |-> Joined(cmd, arg)]>>,
          reps |-> <<rep>>,
          ret |-> rep]

SessionDataCommandUnguarded(st, rep) ==
    LET d == clientData(st, rep)
    IN  [st |-> d.st, ups |-> <<[op |-> "Data"]>>, reps |-> <<d.rep>>, ret |-> d.rep]

\* Session.DataCommand
SessionDataCommand(st, rep) ==
    IF st.blocked
    THEN [st |-> st, ups |-> <<>>, reps |-> <<>>,
          ret |-> [w |-> NilWriter] @@ BlockedReturn]
    ELSE LET d == clientData(st, rep)
         IN  [st |-> d.st, ups |-> <<[op |-> "Data"]>>, reps |-> <<d.rep>>, ret |-> d.rep]

\* the Write calls io.Copy makes for the first k chunks of the reader
Writes(body, k) == [i \in 1..k |-> [op |-> "Write", data |-> body[i]]]

SessionDataStale(st, body, k, copyErr, closeRep) ==
    IF copyErr # NoErr
    THEN [st |-> st, ups |-> Writes(body, k), reps |-> <<>>, copyErr |-> copyErr,
          ret |-> [code |-> 0, msg |-> CopyErrorMsg, err |-> copyErr]]
    ELSE [st |-> writerClose(st, closeRep),
          ups |-> Writes(body, Len(body)) \o <<[op |-> "Close"]>>,
          reps |-> <<closeRep>>, copyErr |-> copyErr,
          ret |-> [code |-> st.drc, msg |-> st.drm, err |-> closeRep.err]]

SessionDataRetry(st, body, k, copyErr, closeRep) ==
    IF copyErr # NoErr
    THEN [st |-> writerClose(st, closeRep),
          ups |-> Writes(body, k) \o Writes(body, Len(body)) \o <<[op |-> "Close"]>>,
          reps |-> <<closeRep>>, copyErr |-> copyErr,
          ret |-> [code |-> closeRep.code, msg |-> closeRep.msg, err |-> closeRep.err]]
    ELSE [st |-> writerClose(st, closeRep),
          ups |-> Writes(body, Len(body)) \o <<[op |-> "Close"]>>,
          reps |-> <<closeRep>>, copyErr |-> copyErr,
          ret |-> [code |-> closeRep.code, msg |-> closeRep.msg, err |-> closeRep.err]]

\* Session.Data: copyErr is the error io.Copy met after k chunks (NoErr: none,
\* and then k is the whole body); closeRep is what the relay answers to the
\* end of the body, cached by the connector when the writer is closed
SessionData(st, body, k, copyErr, closeRep) ==
    IF copyErr # NoErr
    THEN [st |-> st, ups |-> Writes(body, k), reps |-> <<>>, copyErr |-> copyErr,
          ret |-> [code |-> 0, msg |-> CopyErrorMsg, err |-> copyErr]]
    ELSE LET s1 == writerClose(st, closeRep)
         IN  [st |-> s1,
              ups |-> Writes(body, Len(body)) \o <<[op |-> "Close"]>>,
              reps |-> <<closeRep>>, copyErr |-> copyErr,
              ret |-> [code |-> s1.drc, msg |-> s1.drm, err |-> closeRep.err]]

\* smtpproxy.Dial: the connection is made, or it is refused
DialErrs == {NoErr, "dial tcp: connection refused"}

\* Backend.Init: the Session holds what Dial returned (no Client when it
\* failed) and is returned with a nil error in both cases
BackendInit(err) ==
    [upstream |-> IF err = NoErr THEN "client" ELSE "nil", err |-> NoErr]

\* ------------------------------------------------------------------------
\* Actions: one per phase method of the Session
\* ------------------------------------------------------------------------
CanCall == ~panicked /\ nCalls < MaxCalls /\ upstream = "client"

Apply(op, args, r) ==
    /\ blockUpstream' = r.st.blocked
    /\ isTLS' = r.st.tls
    /\ caps' = r.st.caps
    /\ DataResponseCode' = r.st.drc
    /\ DataResponseMsg' = r.st.drm
    /\ writer' = r.st.writer
    /\ nCalls' = nCalls + 1
    /\ last' = [op |-> op, args |-> args, pre |-> Cur, prevOp |-> last.op, r |-> r]
    /\ UNCHANGED <<requireUpstreamTLS, upstream, panicked, dialErr, initErr>>
    /\ UNCHANGED <<serverVars, errVars, lsVars, copyVars,
                 loginVars, mainVars>>

Greet ==
    /\ CanCall
    /\ \E helotype \in {"EHLO", "HELO"}, hello \in Replies, newCaps \in CapSets,
          rep \in TLSReplies, tlsOnFail \in BOOLEAN :
          /\ StartTLSAllowed(clientHello(Cur, hello, newCaps).caps, rep)
          /\ Apply("Greet", <<helotype>>,
                   SessionGreet(Cur, requireUpstreamTLS, hello, newCaps, rep, tlsOnFail))

StartTLS ==
    /\ CanCall
    /\ \E rep \in TLSReplies, tlsOnFail \in BOOLEAN :
          /\ StartTLSAllowed(caps, rep)
          /\ Apply("StartTLS", <<>>, SessionStartTLS(Cur, rep, tlsOnFail))

PassthruCall(op, expectcode, cmd) ==
    /\ CanCall
    /\ \E arg \in Args, rep \in Replies :
          Apply(op, <<cmd, arg>>, Passthru(Cur, expectcode, cmd, arg, rep))

Auth == PassthruCall("Auth", 235, "AUTH")

Mail == PassthruCall("Mail", 250, "MAIL")

Rcpt == PassthruCall("Rcpt", 250, "RCPT")

Reset == PassthruCall("Reset", 250, "RSET")

Quit == PassthruCall("Quit", 221, "QUIT")

Unknown == PassthruCall("Unknown", 250, "NOOP")

DataCommand ==
    /\ CanCall
    /\ \E rep \in Replies :
          Apply("DataCommand", <<>>, SessionDataCommand(Cur, rep))

Data ==
    /\ CanCall
    /\ writer = "open"
    /\ \E m \in Messages, closeRep \in Replies :
          LET body == RawChunks(m)
          IN  \/ Apply("Data", <<body, m>>,
                       SessionData(Cur, body, Len(body), NoErr, closeRep))
              \/ \E k \in 0..(Len(body) - 1), e \in Errs \ {NoErr} :
                    Apply("Data", <<body, m>>, SessionData(Cur, body, k, e, closeRep))

\* a session whose dial failed holds the nil connector: the first call of
\* s.upstream.TLSConnectionState() (respTwiddle, cmdTwiddle) dereferences it
Panic ==
    /\ ~panicked
    /\ upstream = "nil"
    /\ panicked' = TRUE
    /\ UNCHANGED <<requireUpstreamTLS, upstream, blockUpstream, isTLS, caps,
                   DataResponseCode, DataResponseMsg, writer, nCalls, last,
                   dialErr, initErr>>
    /\ UNCHANGED <<serverVars, errVars, lsVars, copyVars,
                 loginVars, mainVars>>

\* Backend.Init: the state of a new Session
Init ==
    /\ requireUpstreamTLS \in BOOLEAN
    /\ dialErr \in DialErrs
    /\ upstream = BackendInit(dialErr).upstream
    /\ initErr = BackendInit(dialErr).err
    /\ blockUpstream = FALSE
    /\ isTLS = FALSE
    /\ caps = {}
    /\ DataResponseCode = 0
    /\ DataResponseMsg = ""
    /\ writer = "none"
    /\ panicked = FALSE
    /\ nCalls = 0
    /\ last = [op |-> "none"]
    /\ ServerIdle /\ ErrIdle /\ LsIdle /\ CopyIdle /\ LoginIdle /\ MainIdle

Next ==
    \/ Greet
    \/ StartTLS
    \/ Auth
    \/ Mail
    \/ Rcpt
    \/ Reset
    \/ Quit
    \/ Unknown
    \/ DataCommand
    \/ Data
    \/ Panic

Spec == Init /\ [][Next]_vars

\* ------------------------------------------------------------------------
\* Several sessions: the server gives every inbound connection a Session of
\* its own (Backend.Init), all of them pointing at the Backend they came from
\* ------------------------------------------------------------------------
MaxServed == 3
Sessions == {1, 2}

\* the state of a connector that has just dialled
NewClient == [blocked |-> FALSE, tls |-> FALSE, caps |-> {}, drc |-> 0, drm |-> "",
              writer |-> "none"]

\* a phase call with what the upstream answers to it
Calls(st) ==
    {c \in [op : {"Greet"}, hello : Replies, newCaps : CapSets, rep : TLSReplies,
            tlsOnFail : BOOLEAN] :
        StartTLSAllowed(clientHello(st, c.hello, c.newCaps).caps, c.rep)}
    \cup {c \in [op : {"StartTLS"}, rep : TLSReplies, tlsOnFail : BOOLEAN] :
              StartTLSAllowed(st.caps, c.rep)}
    \cup [op : {"Mail"}, arg : Args, rep : Replies]
    \cup [op : {"DataCommand"}, rep : Replies]
    \cup {c \in [op : {"Data"}, rep : Replies] : st.writer = "open"}

\* the phase method the protocol engine invokes for the call
PhaseCall(b, st, c) ==
    CASE c.op = "Greet" ->
            SessionGreet(st, b.requireUpstreamTLS, c.hello, c.newCaps, c.rep, c.tlsOnFail)
      [] c.op = "StartTLS" -> SessionStartTLS(st, c.rep, c.tlsOnFail)
      [] c.op = "Mail" -> Passthru(st, 250, "MAIL", c.arg, c.rep)
      [] c.op = "DataCommand" -> SessionDataCommand(st, c.rep)
      [] c.op = "Data" ->
            SessionData(st, RawChunks(PlainMsg), Len(RawChunks(PlainMsg)), NoErr, c.rep)

\* the lines a phase method hands to bkd.logger: the command, then its outcome
logged(c, r) == <<c.op, IF r.ret.err # NoErr THEN "error" ELSE "success">>

\* Backend.logger: log.Println when verbose, nothing otherwise
logger(verbose, lines) == IF verbose THEN lines ELSE <<>>

servedVerboseSkipsGuard(b, x, c, n) ==
    LET r == PhaseCall(b, IF b.verbose THEN [x.st EXCEPT !.blocked = FALSE] ELSE x.st, c)
    IN  [bkd |-> x.bkd, st |-> r.st, resp |-> r.ret, sent |-> r.ups,
         log |-> logger(b.verbose, logged(c, r)), at |-> n]

\* one phase call on Session x of Backend b, the n-th the server handles:
\* the Session afterwards, with what the call returned, sent upstream and logged
served(b, x, c, n) ==
    LET r == PhaseCall(b, x.st, c)
    IN  [bkd |-> x.bkd, st |-> r.st, resp |-> r.ret, sent |-> r.ups,
         log |-> logger(b.verbose, logged(c, r)), at |-> n]

sessionsAfterPackageFlag(ss, s, x) ==
    [t \in DOMAIN ss |-> IF t = s THEN x
                         ELSE [ss[t] EXCEPT !.st.blocked = x.st.blocked]]

\* the phase methods assign through their receiver only
sessionsAfter(ss, s, x) == [ss EXCEPT ![s] = x]

NewSession(b) == [bkd |-> b, st |-> NewClient, resp |-> [op |-> "none"], sent |-> <<>>,
                  log |-> <<>>, at |-> 0]

\* the protocol engine, serving connection s, invokes a phase method
Serve(s) ==
    /\ nServed < MaxServed
    /\ \E c \in Calls(sess[s].st) :
          sess' = sessionsAfter(sess, s,
                      served(backends[sess[s].bkd], sess[s], c, nServed + 1))
    /\ nServed' = nServed + 1
    /\ UNCHANGED backends
    /\ UNCHANGED <<sessionVars, errVars, lsVars, copyVars,
                 loginVars, mainVars>>

\* main: one Backend; Init is called once per inbound connection
InitServer ==
    /\ backends \in [{"be"} -> [verbose : BOOLEAN, requireUpstreamTLS : BOOLEAN]]
    /\ sess = [s \in Sessions |-> NewSession("be")]
    /\ nServed = 0
    /\ SessionIdle /\ ErrIdle /\ LsIdle /\ CopyIdle /\ LoginIdle /\ MainIdle

NextServer == \E s \in Sessions : Serve(s)

SpecServer == InitServer /\ [][NextServer]_vars

\* ------------------------------------------------------------------------
\* Two servers started with the same flags but for -verbose, each serving one
\* connection; the clients send the same commands and the relay gives both
\* the same answers
\* ------------------------------------------------------------------------
ServeBoth ==
    /\ nServed < MaxServed
    /\ \E c \in Calls(sess[1].st) \cap Calls(sess[2].st) :
          sess' = [s \in Sessions |->
                      served(backends[sess[s].bkd], sess[s], c, nServed + 1)]
    /\ nServed' = nServed + 1
    /\ UNCHANGED backends
    /\ UNCHANGED <<sessionVars, errVars, lsVars, copyVars,
                 loginVars, mainVars>>

InitTwin ==
    /\ \E r \in BOOLEAN :
          backends = [b \in {"quiet", "loud"} |->
                         [verbose |-> (b = "loud"), requireUpstreamTLS |-> r]]
    /\ sess = [s \in Sessions |-> NewSession(IF s = 1 THEN "quiet" ELSE "loud")]
    /\ nServed = 0
    /\ SessionIdle /\ ErrIdle /\ LsIdle /\ CopyIdle /\ LoginIdle /\ MainIdle

NextTwin == ServeBoth

SpecTwin == InitTwin /\ [][NextTwin]_vars

\* ------------------------------------------------------------------------
\* Error Translator (errToSmtpErr).  An error is an *smtp.SMTPError (Code,
\* EnhancedCode, Message), a *textproto.Error (Code, Msg) or any other error
\* (its text)
\* ------------------------------------------------------------------------
\* smtp.EnhancedCodeNotSet, the library's sentinel
EnhancedCodeNotSet == <<-1, -1, -1>>
EnhancedPrefixLen == 6

\* the bytes tried in each of the first six places of a message
PrefixBytes == {"2", "5", ".", " ", "x"}
SixBytes == {a \o b \o c \o d \o e \o f :
                a \in PrefixBytes, b \in PrefixBytes, c \in PrefixBytes,
                d \in PrefixBytes, e \in PrefixBytes, f \in PrefixBytes}
ErrTexts == {p \o "OK" : p \in SixBytes}
            \cup {SubSeq(p, 1, n) : p \in SixBytes, n \in 0..EnhancedPrefixLen}
            \cup {"2.1.5 OK", "connection refused"}
ErrorsIn ==
    [type : {"textproto.Error"}, Code : {250, 550}, Msg : ErrTexts]
    \cup [type : {"error"}, text : ErrTexts]
    \cup [type : {"smtp.SMTPError"}, Code : {550}, EnhancedCode : {<<5, 7, 1>>},
          Message : {"2.1.5 OK", "x.1.5 OK", "denied"}]

\* byteDigitToInt: strconv.Atoi of the one-byte string
byteDigitToInt(c) ==
    CASE c = "0" -> [d |-> 0, err |-> NoErr]
      [] c = "1" -> [d |-> 1, err |-> NoErr]
      [] c = "2" -> [d |-> 2, err |-> NoErr]
      [] c = "3" -> [d |-> 3, err |-> NoErr]
      [] c = "4" -> [d |-> 4, err |-> NoErr]
      [] c = "5" -> [d |-> 5, err |-> NoErr]
      [] c = "6" -> [d |-> 6, err |-> NoErr]
      [] c = "7" -> [d |-> 7, err |-> NoErr]
      [] c = "8" -> [d |-> 8, err |-> NoErr]
      [] c = "9" -> [d |-> 9, err |-> NoErr]
      [] OTHER -> [d |-> 0, err |-> "strconv.Atoi: invalid syntax"]

makeEnhancedCodeReversed(c0, c1, c2) ==
    LET d0 == byteDigitToInt(c0)
        d1 == byteDigitToInt(c1)
        d2 == byteDigitToInt(c2)
    IN  IF d0.err = NoErr /\ d1.err = NoErr /\ d2.err = NoErr
        THEN <<d2.d, d1.d, d0.d>>
        ELSE EnhancedCodeNotSet

\* makeEnhancedCode
makeEnhancedCode(c0, c1, c2) ==
    LET d0 == byteDigitToInt(c0)
        d1 == byteDigitToInt(c1)
        d2 == byteDigitToInt(c2)
    IN  IF d0.err = NoErr /\ d1.err = NoErr /\ d2.err = NoErr
        THEN <<d0.d, d1.d, d2.d>>
        ELSE EnhancedCodeNotSet

\* the byte s[i] of a Go string, i counted from 0
ByteAt(s, i) == SubSeq(s, i + 1, i + 1)

errToSmtpErrPromoteAll(e) ==
    LET m == IF e.type = "error" THEN e.text
             ELSE IF e.type = "textproto.Error" THEN e.Msg ELSE e.Message
        hit == /\ Len(m) >= EnhancedPrefixLen
               /\ ByteAt(m, 1) = "." /\ ByteAt(m, 3) = "." /\ ByteAt(m, 5) = " "
    IN  [e |-> e,
         ret |-> [Code |-> IF e.type = "error" THEN 500 ELSE e.Code,
                  EnhancedCode |-> IF hit
                                   THEN makeEnhancedCode(ByteAt(m, 0), ByteAt(m, 2), ByteAt(m, 4))
                                   ELSE EnhancedCodeNotSet,
                  Message |-> IF hit THEN SubSeq(m, EnhancedPrefixLen + 1, Len(m)) ELSE m]]

\* errToSmtpErr: what it returns (ret) and the error it was given afterwards
\* (e: a *textproto.Error has its Msg overwritten)
errToSmtpErr(e) ==
    IF e.type = "smtp.SMTPError"
    THEN [e |-> e,
          ret |-> [Code |-> e.Code, EnhancedCode |-> e.EnhancedCode, Message |-> e.Message]]
    ELSE IF e.type = "textproto.Error"
    THEN LET long == Len(e.Msg) >= EnhancedPrefixLen
             hit == /\ long
                    /\ ByteAt(e.Msg, 1) = "." /\ ByteAt(e.Msg, 3) = "."
                    /\ ByteAt(e.Msg, 5) = " "
             enh == IF hit
                    THEN makeEnhancedCode(ByteAt(e.Msg, 0), ByteAt(e.Msg, 2), ByteAt(e.Msg, 4))
                    ELSE EnhancedCodeNotSet
             msg == IF hit THEN SubSeq(e.Msg, EnhancedPrefixLen + 1, Len(e.Msg)) ELSE e.Msg
         IN  [e |-> [e EXCEPT !.Msg = msg],
              ret |-> [Code |-> e.Code, EnhancedCode |-> enh, Message |-> msg]]
    ELSE [e |-> e,
          ret |-> [Code |-> 0, EnhancedCode |-> EnhancedCodeNotSet, Message |-> e.text]]

\* a handler passes the error of an upstream call to errToSmtpErr
Translate ==
    /\ ~translated
    /\ theErr' = errToSmtpErr(theErr).e
    /\ smtpErr' = errToSmtpErr(theErr).ret
    /\ translated' = TRUE
    /\ UNCHANGED errGiven
    /\ UNCHANGED <<sessionVars, serverVars, lsVars, copyVars,
                 loginVars, mainVars>>

InitErr ==
    /\ theErr \in ErrorsIn
    /\ errGiven = theErr
    /\ smtpErr = [Code |-> 0, EnhancedCode |-> EnhancedCodeNotSet, Message |-> ""]
    /\ translated = FALSE
    /\ SessionIdle /\ ServerIdle /\ LsIdle /\ CopyIdle /\ LoginIdle /\ MainIdle

NextErr == Translate

SpecErr == InitErr /\ [][NextErr]_vars

\* ------------------------------------------------------------------------
\* Line Splitter (linesplitter): an io.WriteCloser that passes its input on
\* to the writer w, with sep after every len bytes
\* ------------------------------------------------------------------------
MaxInput == 4
MaxLen == 3
MaxWrites == 5
InputBytes == {"a", "\n"}
Seps == {"\r\n", "=", ""}

RECURSIVE ByteSeqs(_)
ByteSeqs(n) ==
    IF n = 0 THEN {""}
    ELSE ByteSeqs(n - 1) \cup {q \o b : q \in {x \in ByteSeqs(n - 1) : Len(x) = n - 1},
                                        b \in InputBytes}

min(a, b) == IF a < b THEN a ELSE b

\* linesplitter.NewWriter
NewWriter(len, sep) == [len |-> len, count |-> 0, sep |-> sep]

RECURSIVE WriteLoop(_, _, _, _, _, _)
\* the for loop of linesplitter.Write, from one pass on.  A pass that leaves
\* input to go and changes neither readPos, chunkSize nor ls.count is
\* repeated for ever: the call does not return (hung), and w has by then
\* received at least what is given here
WriteLoop(l, w, in, readPos, chunkSize, writtenThisCall) ==
    LET w1 == w \o SubSeq(in, readPos + 1, readPos + chunkSize)
        readPos1 == readPos + chunkSize
        count1 == l.count + chunkSize
        written1 == writtenThisCall + chunkSize
        done == count1 >= l.len
        w2 == IF done THEN w1 \o l.sep ELSE w1
        written2 == IF done THEN written1 + Len(l.sep) ELSE written1
        l2 == [l EXCEPT !.count = IF done THEN 0 ELSE count1]
        inToGo == Len(in) - readPos1
        chunkSize1 == min(inToGo, l.len)
    IN  IF inToGo <= 0
        THEN [ls |-> l2, w |-> w2, n |-> written2, err |-> NoErr, hung |-> FALSE]
        ELSE IF <<readPos1, chunkSize1, l2.count>> = <<readPos, chunkSize, l.count>>
        THEN [ls |-> l2, w |-> w2, n |-> written2, err |-> NoErr, hung |-> TRUE]
        ELSE WriteLoop(l2, w2, in, readPos1, chunkSize1, written2)

linesplitterWriteNoResidual(l, w, in) ==
    WriteLoop(l, w, in, 0, min(Len(in), l.len), 0)

\* linesplitter.Write
linesplitterWrite(l, w, in) ==
    WriteLoop(l, w, in, 0, min(Len(in), l.len - l.count), 0)

linesplitterCloseTerminates(l, w) ==
    [ls |-> l, w |-> IF l.count > 0 THEN w \o l.sep ELSE w, err |-> NoErr]

\* linesplitter.Close
linesplitterClose(l, w) == [ls |-> l, w |-> w, err |-> NoErr]

\* the caller writes the next k bytes of its input
LsWrite ==
    /\ ~lsClosed /\ ~lsHung
    /\ Len(lsPieces) < MaxWrites
    /\ \E k \in 0..(Len(lsIn) - lsPos) :
          LET r == linesplitterWrite(ls, lsW, SubSeq(lsIn, lsPos + 1, lsPos + k))
          IN  /\ ls' = r.ls
              /\ lsW' = r.w
              /\ lsRet' = r.n
              /\ lsHung' = r.hung
              /\ lsPos' = lsPos + k
              /\ lsPieces' = Append(lsPieces, k)
    /\ UNCHANGED <<lsIn, lsClosed>>
    /\ UNCHANGED <<sessionVars, serverVars, errVars, copyVars,
                 loginVars, mainVars>>

LsClose ==
    /\ ~lsClosed /\ ~lsHung
    /\ ls' = linesplitterClose(ls, lsW).ls
    /\ lsW' = linesplitterClose(ls, lsW).w
    /\ lsClosed' = TRUE
    /\ UNCHANGED <<lsIn, lsPos, lsPieces, lsRet, lsHung>>
    /\ UNCHANGED <<sessionVars, serverVars, errVars, copyVars,
                 loginVars, mainVars>>

InitLs ==
    /\ \E len \in 1..MaxLen, sep \in Seps : ls = NewWriter(len, sep)
    /\ lsW = ""
    /\ lsIn \in ByteSeqs(MaxInput)
    /\ lsPos = 0
    /\ lsPieces = <<>>
    /\ lsRet = 0
    /\ lsClosed = FALSE
    /\ lsHung = FALSE
    /\ SessionIdle /\ ServerIdle /\ ErrIdle /\ CopyIdle /\ LoginIdle /\ MainIdle

NextLs == LsWrite \/ LsClose

SpecLs == InitLs /\ [][NextLs]_vars

\* the same, for every chunk length NewWriter accepts from 0 on
InitLsAny ==
    /\ \E len \in 0..MaxLen, sep \in Seps : ls = NewWriter(len, sep)
    /\ lsW = ""
    /\ lsIn \in ByteSeqs(MaxInput)
    /\ lsPos = 0
    /\ lsPieces = <<>>
    /\ lsRet = 0
    /\ lsClosed = FALSE
    /\ lsHung = FALSE
    /\ SessionIdle /\ ServerIdle /\ ErrIdle /\ CopyIdle /\ LoginIdle /\ MainIdle

SpecLsAny == InitLsAny /\ [][NextLs]_vars

\* ------------------------------------------------------------------------
\* MIME Transcoder (mailCopy) on its own: a message comes in on src, mailCopy
\* writes to dst
\* ------------------------------------------------------------------------
MaxParts == 2
MaxFailAt == 11

\* a leaf with the given Content-Type and Content-Transfer-Encoding ("": no
\* such field)
Leaf(cType, cte, data) ==
    [hdr |-> <<Field("Content-Type", cType)>> \o
             (IF cte = "" THEN <<>>
              ELSE <<Field("Content-Transfer-Encoding", cte)>>),
     kind |-> "leaf", data |-> data]

\* two contents, the first without a line end, and their encoded forms as
\* the client sends them under each Content-Transfer-Encoding
Contents == {"Hello", "Hi=1" \o smtpCRLF}
Encodings == {"", "7bit", "base64", "quoted-printable", "x-uuencode"}
Encoded(cte, content) ==
    CASE cte = "base64" ->
            (IF content = "Hello" THEN "SGVsbG8=" ELSE "SGk9MQ0K")
      [] cte = "quoted-printable" ->
            (IF content = "Hello" THEN "Hello" ELSE "Hi=3D1" \o smtpCRLF)
      [] OTHER -> content

HTMLParts == {Leaf("text/html", cte, <<Encoded(cte, c)>>) :
                  cte \in Encodings, c \in Contents}
EncodedPlainParts ==
    {Leaf("text/plain", cte, <<Encoded(cte, "Hi=1" \o smtpCRLF)>>) :
         cte \in {"base64", "quoted-printable", "x-uuencode"}}

\* the parts a multipart message is made of: two text parts, a part without
\* Content-Type, a nested multipart, html parts and encoded text parts
PartKinds ==
    {[hdr |-> <<Field("Content-Type", "text/plain")>>, kind |-> "leaf", data |-> <<"a">>],
     [hdr |-> <<Field("Content-Type", "text/plain"),
                Field("Content-Transfer-Encoding", "7bit")>>,
      kind |-> "leaf", data |-> <<"b">>],
     [hdr |-> <<Field("Content-Disposition", "inline")>>, kind |-> "leaf", data |-> <<"c">>],
     [hdr |-> <<Field("Content-Type", "multipart/alternative; boundary=in")>>,
      kind |-> "multi",
      parts |-> <<[hdr |-> <<Field("Content-Type", "text/plain")>>,
                   kind |-> "leaf", data |-> <<"d">>]>>]}
    \cup HTMLParts \cup EncodedPlainParts

\* a message whose header lines are not in the form mailCopy writes
LowerCaseMsg == [hdr |-> <<RawField("subject:hi" \o smtpCRLF, "Subject", "hi"),
                           Field("Content-Type", "text/plain")>>,
                 kind |-> "leaf", data |-> <<"hello" \o smtpCRLF>>]

\* an html part with a line too long for quoted-printable, and one whose
\* base64 is cut short
LongLine ==
    "<p>0123456789012345678901234567890123456789012345678901234567890123456789</p> "
    \o smtpCRLF
LongHTMLMsg == Leaf("text/html", "8bit", <<LongLine, "<p>end</p>" \o smtpCRLF>>)
CorruptHTMLMsg == Leaf("text/html", "base64", <<"SGVsbG8">>)

\* three leaf parts under one boundary
ThreePartMsg ==
    [hdr |-> <<Field("Content-Type", "multipart/mixed; boundary=xyz")>>,
     kind |-> "multi",
     parts |-> <<Leaf("text/plain", "", <<"a">>),
                 Leaf("text/html", "base64", <<"SGk9MQ0K">>),
                 Leaf("text/plain", "7bit", <<"b">>)>>]

\* a part that carries more header fields than the two the transcoder reads
AttachmentMsg ==
    [hdr |-> <<Field("Content-Type", "multipart/mixed; boundary=xyz")>>,
     kind |-> "multi",
     parts |-> <<[hdr |-> <<Field("Content-Type", "text/plain"),
                            Field("Content-Transfer-Encoding", "7bit"),
                            Field("Content-Disposition", "inline"),
                            Field("Content-Id", "<1>")>>,
                  kind |-> "leaf", data |-> <<"a">>]>>]

Singles ==
    Messages \cup HTMLParts \cup EncodedPlainParts
    \cup {LowerCaseMsg, LongHTMLMsg, CorruptHTMLMsg, ThreePartMsg, AttachmentMsg,
          Leaf("text/plain", "7bit", <<"hello" \o smtpCRLF, "bye" \o smtpCRLF>>)}
    \cup {[hdr |-> <<Field("Content-Type", "message/rfc822")>>,
           kind |-> "msg", inner |-> h] : h \in HTMLParts}

Mails ==
    Singles \cup
    {[hdr |-> <<Field("Subject", "hi"),
                Field("Content-Type", "multipart/mixed; boundary=xyz")>>,
      kind |-> "multi", parts |-> ps] :
        ps \in UNION {[1..n -> PartKinds] : n \in 1..MaxParts}}

\* the messages copied to a destination that fails
FailMails ==
    Singles \cup
    {[hdr |-> <<Field("Content-Type", "multipart/mixed; boundary=xyz")>>,
      kind |-> "multi", parts |-> ps] :
        ps \in UNION {[1..n -> {Leaf("text/plain", "", <<"a">>),
                                Leaf("text/html", "", <<"Hi=1" \o smtpCRLF>>)}] :
                          n \in 1..MaxParts}}

\* mailCopy(dst, src)
Copy ==
    /\ ~copied.done
    /\ LET r == mailCopy(dst, mail, hdrOrder)
       IN  /\ copied' = [done |-> TRUE, out |-> r.dst.out, n |-> r.n, err |-> r.err]
           /\ dst' = r.dst
    /\ UNCHANGED <<mail, hdrOrder>>
    /\ UNCHANGED <<sessionVars, serverVars, errVars, lsVars,
                 loginVars, mainVars>>

InitCopy ==
    /\ \/ mail \in Mails /\ dst = GoodDst
       \/ /\ mail \in FailMails
          /\ dst \in {NewDst(k, sticky) : k \in 1..MaxFailAt, sticky \in BOOLEAN}
    /\ hdrOrder \in HeaderOrders
    /\ copied = [done |-> FALSE, out |-> "", n |-> 0, err |-> NoErr]
    /\ SessionIdle /\ ServerIdle /\ ErrIdle /\ LsIdle /\ LoginIdle /\ MainIdle

NextCopy == Copy

SpecCopy == InitCopy /\ [][NextCopy]_vars

\* ------------------------------------------------------------------------
\* The session of the Login backend (Backend.Login dials, authenticates and
\* hands the Session its upstream *smtp.Client; Logout closes it)
\* ------------------------------------------------------------------------
MaxLoginCalls == 4

Nil == [nil |-> TRUE]
Void == [void |-> TRUE]
Froms == {"a@x"}
Tos == {"b@y", "c@y"}

\* what upstream.Quit() can do on an open connection: QUIT answered 221 and
\* the connection closed; QUIT sent and answered otherwise; QUIT answered 221
\* and the close failing; the command not written at all
QuitOutcomes ==
    {[sent |-> TRUE, closed |-> TRUE, err |-> Nil],
     [sent |-> TRUE, closed |-> FALSE,
      err |-> [type |-> "textproto.Error", Code |-> 421, Msg |-> "4.3.2 busy"]],
     [sent |-> TRUE, closed |-> TRUE,
      err |-> [type |-> "error", text |-> "close failed"]],
     [sent |-> FALSE, closed |-> TRUE, err |-> [type |-> "error", text |-> "EOF"]]}
\* on a closed connection a command cannot be written
OutcomesOn(conn) ==
    IF conn = "open" THEN QuitOutcomes ELSE {q \in QuitOutcomes : ~q.sent}

\* what upstream.Mail / upstream.Rcpt can return
CmdErrs(conn) ==
    IF conn = "open"
    THEN {Nil, [type |-> "textproto.Error", Code |-> 550, Msg |-> "5.7.1 denied"]}
    ELSE {[type |-> "error", text |-> "EOF"]}

\* Session.Logout with q what upstream.Quit() does, if it is called
SessionLogout(s, q) ==
    IF s.upstream # "nil"
    THEN LET t == [s EXCEPT !.quits = IF q.sent THEN @ + 1 ELSE @,
                            !.conn = IF q.closed THEN "closed" ELSE @]
         IN  IF q.err # Nil
             THEN [st |-> t, ret |-> errToSmtpErr(q.err).ret]
             ELSE [st |-> [t EXCEPT !.upstream = "nil", !.mailfrom = "",
                                    !.rcptto = <<>>],
                   ret |-> Nil]
    ELSE [st |-> [s EXCEPT !.mailfrom = "", !.rcptto = <<>>], ret |-> Nil]

\* Session.Reset: Logout with its error dropped
SessionReset(s, q) == [st |-> SessionLogout(s, q).st, ret |-> Void]

\* Session.Mail / Session.Rcpt: a nil upstream is dereferenced
SessionMail(s, from, err) ==
    IF s.upstream = "nil" THEN [st |-> [s EXCEPT !.panicked = TRUE], ret |-> Void]
    ELSE IF err # Nil THEN [st |-> s, ret |-> errToSmtpErr(err).ret]
    ELSE [st |-> [s EXCEPT !.mailfrom = from], ret |-> Nil]
SessionRcpt(s, to, err) ==
    IF s.upstream = "nil" THEN [st |-> [s EXCEPT !.panicked = TRUE], ret |-> Void]
    ELSE IF err # Nil THEN [st |-> s, ret |-> errToSmtpErr(err).ret]
    ELSE [st |-> [s EXCEPT !.rcptto = Append(@, to)], ret |-> Nil]

\* Session.Data: upstream.Data(), io.Copy of the body, w.Close(); only the
\* error of Close is translated.  A nil upstream is dereferenced
LoginSessionData(s, err, closeErr) ==
    IF s.upstream = "nil" THEN [st |-> [s EXCEPT !.panicked = TRUE], ret |-> Void]
    ELSE IF err # Nil THEN [st |-> s, ret |-> err]
    ELSE IF closeErr # Nil THEN [st |-> s, ret |-> errToSmtpErr(closeErr).ret]
    ELSE [st |-> s, ret |-> Nil]

LoginFields(s) ==
    [upstream |-> s.upstream, conn |-> s.conn, quits |-> s.quits,
     mailfrom |-> s.mailfrom, rcptto |-> s.rcptto, panicked |-> s.panicked,
     loggedOut |-> s.loggedOut]
\* the server calls a method of the Session
LoginApply(op, r) ==
    /\ login' = LoginFields(r.st) @@
                 [n |-> login.n + 1,
                  last |-> [op |-> op, pre |-> LoginFields(login), ret |-> r.ret]]
    /\ UNCHANGED <<sessionVars, serverVars, errVars, lsVars, copyVars, mainVars>>
LoginCanCall == login.n < MaxLoginCalls /\ ~login.panicked

LoginMail ==
    /\ LoginCanCall
    /\ \E from \in Froms, err \in CmdErrs(login.conn) :
           LoginApply("Mail", SessionMail(login, from, err))
LoginRcpt ==
    /\ LoginCanCall
    /\ \E to \in Tos, err \in CmdErrs(login.conn) :
           LoginApply("Rcpt", SessionRcpt(login, to, err))
LoginData ==
    /\ LoginCanCall
    /\ \E err \in CmdErrs(login.conn), closeErr \in CmdErrs(login.conn) :
           LoginApply("Data", LoginSessionData(login, err, closeErr))
LoginReset ==
    /\ LoginCanCall
    /\ \E q \in OutcomesOn(login.conn) : LoginApply("Reset", SessionReset(login, q))
LoginLogout ==
    /\ LoginCanCall
    /\ \E q \in OutcomesOn(login.conn) :
           LoginApply("Logout", [SessionLogout(login, q) EXCEPT !.st.loggedOut = TRUE])

InitLogin ==
    /\ login = [upstream |-> "client", conn |-> "open", quits |-> 0,
                mailfrom |-> "", rcptto |-> <<>>, panicked |-> FALSE,
                loggedOut |-> FALSE, n |-> 0, last |-> [op |-> "none"]]
    /\ SessionIdle /\ ServerIdle /\ ErrIdle /\ LsIdle /\ CopyIdle /\ MainIdle

NextLogin == LoginMail \/ LoginRcpt \/ LoginData \/ LoginReset \/ LoginLogout

SpecLogin == InitLogin /\ [][NextLogin]_vars

\* ------------------------------------------------------------------------
\* main: startup, from the parsed flags to ListenAndServe.  log.Fatal ends
\* the process
\* ------------------------------------------------------------------------
\* the flags, and what the operating system will answer
BootInputs ==
    [certfile : {"", "fullchain.pem"}, privkeyfile : {"", "privkey.pem"},
     serverDebug : {"", "debug.log"},
     hostnameErr : BOOLEAN, loadErr : BOOLEAN, parseErr : BOOLEAN,
     openErr : BOOLEAN, listenErr : BOOLEAN]

Fatal(b, why) == [b EXCEPT !.pc = "exited", !.fatal = why]

\* (mutant) a missing certificate ends the process
gatherTLSRequired(b) ==
    IF b.in.certfile = "" \/ b.in.privkeyfile = "" \/ b.in.loadErr
    THEN Fatal(b, "keypair")
    ELSE IF b.in.parseErr THEN Fatal([b EXCEPT !.tlsConfig = TRUE], "parse")
    ELSE [b EXCEPT !.pc = "debug", !.tlsConfig = TRUE, !.subject = "CommonName"]

\* the TLS credentials: none configured is a warning, configured ones must
\* load (tls.LoadX509KeyPair) and parse (x509.ParseCertificate)
gatherTLS(b) ==
    IF b.in.certfile = "" \/ b.in.privkeyfile = ""
    THEN [b EXCEPT !.pc = "debug"]
    ELSE IF b.in.loadErr THEN Fatal(b, "keypair")
    ELSE IF b.in.parseErr THEN Fatal([b EXCEPT !.tlsConfig = TRUE], "parse")
    ELSE [b EXCEPT !.pc = "debug", !.tlsConfig = TRUE, !.subject = "CommonName"]

MainStep(b) ==
    /\ boot' = b
    /\ UNCHANGED <<sessionVars, serverVars, errVars, lsVars, copyVars, loginVars>>

\* subject, err := os.Hostname()
MainHostname ==
    /\ boot.pc = "hostname"
    /\ MainStep(IF boot.in.hostnameErr THEN Fatal(boot, "hostname")
                ELSE [boot EXCEPT !.pc = "tls", !.subject = "hostname"])

MainTLS ==
    /\ boot.pc = "tls"
    /\ MainStep(gatherTLS(boot))

\* s.Domain = subject, then the debug transcript file if one is asked for
MainDebug ==
    /\ boot.pc = "debug"
    /\ MainStep(IF boot.in.serverDebug = ""
                THEN [boot EXCEPT !.pc = "listen", !.domain = boot.subject]
                ELSE IF boot.in.openErr
                THEN Fatal([boot EXCEPT !.domain = boot.subject], "debugfile")
                ELSE [boot EXCEPT !.pc = "listen", !.domain = boot.subject,
                                  !.debug = TRUE])

\* s.ListenAndServe()
MainListen ==
    /\ boot.pc = "listen"
    /\ MainStep(IF boot.in.listenErr THEN Fatal(boot, "listen")
                ELSE [boot EXCEPT !.pc = "serving"])

InitMain ==
    /\ boot \in {[in |-> i, pc |-> "hostname", fatal |-> "none", subject |-> "",
                  domain |-> "", tlsConfig |-> FALSE, debug |-> FALSE] :
                     i \in BootInputs}
    /\ SessionIdle /\ ServerIdle /\ ErrIdle /\ LsIdle /\ CopyIdle /\ LoginIdle

NextMain == MainHostname \/ MainTLS \/ MainDebug \/ MainListen

SpecMain == InitMain /\ [][NextMain]_vars

\* ------------------------------------------------------------------------
\* Properties
\* ------------------------------------------------------------------------
PassthruOps == {"Auth", "Mail", "Rcpt", "Reset", "Quit", "Unknown"}
BlockMsgs == {upstreamBlockMsg, "4.0.0 " \o upstreamBlockMsg}
Returned == last.op # "none"

\* C1: once blockUpstream is set, every later phase call (Greet, StartTLS,
\* Auth, Mail, Rcpt, Reset, Quit, Unknown, DataCommand, Data) returns the
\* fixed block code and message and performs no operation on the connector.
C1_BlockedCallsShortCircuit ==
    (Returned /\ last.pre.blocked) =>
        /\ last.r.ret.code = upstreamBlockCode
        /\ last.r.ret.msg \in BlockMsgs
        /\ last.r.ups = <<>>

\* C2: on a session that is not blocked, Auth, Mail, Rcpt, Reset, Quit and
\* Unknown send exactly one command upstream (cmd alone when arg is empty,
\* else cmd, one space, arg) and return the connector's code, message and
\* error for it unchanged.
C2_PassthruTransparent ==
    (Returned /\ last.op \in PassthruOps /\ ~last.pre.blocked) =>
        /\ Len(last.r.ups) = 1
        /\ last.r.ups[1].op = "MyCmd"
        /\ last.r.ups[1].line = (IF last.args[2] = "" THEN last.args[1]
                                 ELSE last.args[1] \o " " \o last.args[2])
        /\ Len(last.r.reps) = 1
        /\ last.r.ret = last.r.reps[1]
        /\ blockUpstream = last.pre.blocked

C2_Witness ==
    /\ last.op = "Mail"
    /\ ~last.pre.blocked
    /\ last.args[2] = ""
    /\ last.r.ret.err # NoErr
    /\ last.r.ret.code = 550

\* C3: blocked is terminal: once blockUpstream is true no phase call, whatever
\* the upstream answers, makes it false again.
C3_BlockedIsTerminal == [][blockUpstream => blockUpstream']_vars

C3_Witness ==
    /\ Returned
    /\ last.op \in PassthruOps
    /\ last.pre.blocked
    /\ blockUpstream

\* C4: with requireUpstreamTLS on, a Greet whose Hello succeeded on a plaintext
\* connection and whose StartTLS attempt failed blocks the session and returns
\* the fixed block code and text, not the upstream's, with a non-nil error.
C4_EagerFailureBlocks ==
    (/\ last.op = "Greet"
     /\ requireUpstreamTLS
     /\ last.r.reps[1].err = NoErr
     /\ ~last.pre.tls
     /\ last.r.eager.tried
     /\ last.r.eager.ret.err # NoErr) =>
        /\ blockUpstream
        /\ last.r.ret.code = upstreamBlockCode
        /\ last.r.ret.msg = upstreamBlockMsg
        /\ last.r.ret.err # NoErr

\* the eager attempt reached the relay and was refused there
C4_Witness ==
    /\ last.op = "Greet"
    /\ requireUpstreamTLS
    /\ ~last.pre.blocked
    /\ Len(last.r.reps) = 2
    /\ last.r.reps[2].code = 550
    /\ blockUpstream
    /\ last.r.ret.code = upstreamBlockCode

\* C5: under requireUpstreamTLS, a Greet whose Hello succeeds on a plaintext
\* connection while STARTTLS is not advertised or its negotiation fails leaves
\* the session blocked, and every later command of the session is rejected
\* with the fixed response without any upstream contact.
C5_StrictPolicyBlocksForGood ==
    /\ (/\ last.op = "Greet"
        /\ requireUpstreamTLS
        /\ last.r.reps[1].err = NoErr
        /\ ~last.pre.tls
        /\ \/ "STARTTLS" \notin caps
           \/ last.r.eager.ret.err # NoErr) => blockUpstream
    /\ (Returned /\ requireUpstreamTLS /\ last.pre.blocked) =>
            /\ last.r.ret.code = upstreamBlockCode
            /\ last.r.ret.msg \in BlockMsgs
            /\ last.r.ret.err # NoErr
            /\ last.r.ups = <<>>

\* C6: with requireUpstreamTLS off, StartTLS on a plaintext session whose
\* upstream did not advertise STARTTLS in its last Hello sends nothing
\* upstream, returns success with a nil error and leaves the session unblocked.
C6_PermissiveSkipsMissingSTARTTLS ==
    (/\ last.op = "StartTLS"
     /\ ~requireUpstreamTLS
     /\ ~last.pre.tls
     /\ last.pre.caps # {}
     /\ "STARTTLS" \notin last.pre.caps) =>
        /\ last.r.ups = <<>>
        /\ last.r.ret.err = NoErr
        /\ ~blockUpstream

\* C7: StartTLS on an already secured connection returns success with a nil
\* error without invoking the upstream STARTTLS, so of two StartTLS calls in a
\* row of which the first succeeds only the first can reach the upstream.
C7_StartTLSIdempotent ==
    [][(nCalls' = nCalls + 1 /\ last'.op = "StartTLS") =>
          /\ isTLS =>
                /\ last'.r.ret = [code |-> AlreadySecureCode,
                                  msg |-> AlreadySecureMsg, err |-> NoErr]
                /\ last'.r.ups = <<>>
                /\ isTLS'
          /\ (last.op = "StartTLS" /\ last.r.ret.err = NoErr) =>
                /\ last'.r.ups = <<>>
                /\ last'.r.ret.err = NoErr
                /\ Len(last.r.ups) = (IF last.pre.tls THEN 0 ELSE 1)]_vars

\* the second of two StartTLS calls in a row, the first having negotiated
C7_Witness ==
    /\ last.op = "StartTLS"
    /\ last.prevOp = "StartTLS"
    /\ last.pre.tls
    /\ ~last.pre.blocked
    /\ last.r.ups = <<>>
    /\ last.r.ret.code = AlreadySecureCode

\* C8: DataCommand on a blocked session returns no writer, the fixed block
\* code and message and a non-nil error without calling upstream.Data(); on an
\* unblocked session it calls upstream.Data() exactly once and returns the
\* writer, code, message and error the connector gave, unchanged.
C8_DataCommand ==
    (last.op = "DataCommand") =>
        IF last.pre.blocked
        THEN /\ last.r.ret.w = NilWriter
             /\ last.r.ret.code = upstreamBlockCode
             /\ last.r.ret.msg = "4.0.0 " \o upstreamBlockMsg
             /\ last.r.ret.err # NoErr
             /\ last.r.ups = <<>>
             /\ writer = last.pre.writer
        ELSE /\ last.r.ups = <<[op |-> "Data"]>>
             /\ Len(last.r.reps) = 1
             /\ last.r.ret = last.r.reps[1]

C8_Witness ==
    /\ last.op = "DataCommand"
    /\ last.pre.blocked
    /\ last.r.ret.w = NilWriter

\* C9: when the body transfer succeeds, Data closes the upstream writer
\* exactly once, after the last body chunk was written, and returns the
\* connector's cached DATA response code and message as they stand after the
\* close, together with the close error.
C9_DataReturnsCachedResponse ==
    (last.op = "Data" /\ last.r.copyErr = NoErr) =>
        LET u == last.r.ups
            body == last.args[1]
        IN  /\ Len(u) = Len(body) + 1
            /\ \A i \in 1..Len(body) : u[i] = [op |-> "Write", data |-> body[i]]
            /\ u[Len(u)] = [op |-> "Close"]
            /\ writer = "closed"
            /\ last.r.ret.code = DataResponseCode
            /\ last.r.ret.msg = DataResponseMsg
            /\ last.r.ret.err = last.r.reps[1].err

\* the relay rejects the body at the final dot and Data passes that on
C9_Witness ==
    /\ last.op = "Data"
    /\ last.r.copyErr = NoErr
    /\ Len(last.r.ups) > 1
    /\ last.pre.drc # 550
    /\ last.r.ret.code = 550
    /\ last.r.ret.err # NoErr

\* C10: the bytes Data writes to the upstream writer are the transcoder's
\* output for the client's body (mailCopy on the reader), not a verbatim copy.
C10_DataRunsTranscoder ==
    (last.op = "Data" /\ last.r.copyErr = NoErr) =>
        LET u == last.r.ups
            sent == Flat([i \in 1..(Len(u) - 1) |-> u[i].data])
        IN  \E ord \in HeaderOrders : sent = mailCopy(GoodDst, last.args[2], ord).dst.out

\* C11: when the copy of the body fails, Data returns the error io.Copy met
\* (non-nil) at once: what reached the upstream writer is the chunks written
\* before the failure, each once and in order, and nothing after them (no
\* second write of a chunk, no Close), and the connector's state is untouched.
C11_DataStopsOnCopyError ==
    (last.op = "Data" /\ last.r.copyErr # NoErr) =>
        LET u == last.r.ups
            body == last.args[1]
        IN  /\ last.r.ret.err = last.r.copyErr
            /\ last.r.ret.err # NoErr
            /\ Len(u) < Len(body)
            /\ \A i \in 1..Len(u) : u[i] = [op |-> "Write", data |-> body[i]]
            /\ writer = last.pre.writer
            /\ DataResponseCode = last.pre.drc
            /\ DataResponseMsg = last.pre.drm

\* the failure comes after part of the body went upstream
C11_Witness ==
    /\ last.op = "Data"
    /\ last.r.copyErr # NoErr
    /\ Len(last.r.ups) >= 2
    /\ last.r.ret.err = last.r.copyErr
    /\ writer = "open"

\* C12: when the dial fails, a non-nil error reaches the protocol engine from
\* Init, or else from the first Greet, and no phase call runs against the
\* missing connector.
C12_DialFailureSurfaced ==
    (dialErr # NoErr) =>
        /\ ~panicked
        /\ \/ initErr # NoErr
           \/ (last.op = "Greet" /\ last.prevOp = "none") => last.r.ret.err # NoErr

C14_VerboseIsInert ==
    (sess[1].bkd # sess[2].bkd) =>
        /\ sess[1].resp = sess[2].resp
        /\ sess[1].sent = sess[2].sent
        /\ sess[1].st = sess[2].st

\* both were blocked by the eager STARTTLS and then had a command rejected;
\* only the verbose one logged it
C14_Witness ==
    /\ backends[sess[1].bkd].verbose # backends[sess[2].bkd].verbose
    /\ sess[1].log # sess[2].log
    /\ sess[1].st.blocked
    /\ sess[2].st.blocked
    /\ sess[1].resp.msg = "4.0.0 " \o upstreamBlockMsg

\* the shape digit, '.', digit, '.', digit, ' ' of an enhanced-code prefix
Digits == {"0", "1", "2", "3", "4", "5", "6", "7", "8", "9"}
DigitValue(c) == CHOOSE n \in 0..9 : SubSeq("0123456789", n + 1, n + 1) = c
Place(m, i) == SubSeq(m, i, i)
DigitsAt(m) == {i \in {1, 3, 5} : Place(m, i) \in Digits}
SeparatorsAt(m) == {i \in {2, 4} : Place(m, i) = "."} \cup {i \in {6} : Place(m, i) = " "}
HasEnhancedPrefix(m) ==
    Len(m) >= 6 /\ DigitsAt(m) = {1, 3, 5} /\ SeparatorsAt(m) = {2, 4, 6}

\* C15: for a protocol error (textproto.Error) with code c whose message
\* starts with digit, '.', digit, '.', digit, ' ', errToSmtpErr returns code c,
\* the three digits as the enhanced code and the message without those six
\* characters; 250 "2.1.5 OK" gives (2,1,5) and "OK".
C15_EnhancedPrefixParsed ==
    (translated /\ errGiven.type = "textproto.Error" /\ HasEnhancedPrefix(errGiven.Msg)) =>
        /\ smtpErr.Code = errGiven.Code
        /\ smtpErr.EnhancedCode = <<DigitValue(Place(errGiven.Msg, 1)),
                                    DigitValue(Place(errGiven.Msg, 3)),
                                    DigitValue(Place(errGiven.Msg, 5))>>
        /\ Len(smtpErr.Message) = Len(errGiven.Msg) - 6
        /\ Place(errGiven.Msg, 1) \o "." \o Place(errGiven.Msg, 3) \o "."
               \o Place(errGiven.Msg, 5) \o " " \o smtpErr.Message = errGiven.Msg
        /\ (errGiven.Code = 250 /\ errGiven.Msg = "2.1.5 OK") =>
               (smtpErr.EnhancedCode = <<2, 1, 5>> /\ smtpErr.Message = "OK")

C15_Witness ==
    /\ translated
    /\ errGiven = [type |-> "textproto.Error", Code |-> 250, Msg |-> "2.1.5 OK"]
    /\ smtpErr = [Code |-> 250, EnhancedCode |-> <<2, 1, 5>>, Message |-> "OK"]

\* C16: for an error with no structured code and no enhanced-code prefix
\* (plain text such as "connection refused"), errToSmtpErr returns code 0, the
\* sentinel EnhancedCodeNotSet and the error's text verbatim.
C16_PlainTextDefaults ==
    (translated /\ errGiven.type = "error" /\ ~HasEnhancedPrefix(errGiven.text)) =>
        /\ smtpErr.Code = 0
        /\ smtpErr.EnhancedCode = EnhancedCodeNotSet
        /\ smtpErr.Message = errGiven.text

C16_Witness ==
    /\ translated
    /\ errGiven = [type |-> "error", text |-> "connection refused"]
    /\ smtpErr.Code = 0
    /\ smtpErr.Message = "connection refused"

\* a message of six or more bytes that misses the shape D.D.D<space> by a
\* non-digit in a digit place, or by a dot or the space out of place
NearMatch(m) ==
    /\ Len(m) >= 6
    /\ \/ SeparatorsAt(m) = {2, 4, 6} /\ DigitsAt(m) # {1, 3, 5}
       \/ DigitsAt(m) = {1, 3, 5} /\ SeparatorsAt(m) # {2, 4, 6}

\* C17: for an error whose message has a near-match enhanced-code prefix,
\* errToSmtpErr falls through to the plain-text rule: code 0, enhanced code
\* unset, and the message exactly as received.
C17_NearMatchFallsThrough ==
    (/\ translated
     /\ errGiven.type \in {"textproto.Error", "error"}
     /\ NearMatch(IF errGiven.type = "error" THEN errGiven.text ELSE errGiven.Msg)) =>
        /\ smtpErr.Code = 0
        /\ smtpErr.EnhancedCode = EnhancedCodeNotSet
        /\ smtpErr.Message = (IF errGiven.type = "error" THEN errGiven.text
                               ELSE errGiven.Msg)

\* C18: the bytes reaching the underlying writer do not depend on how the
\* input is cut into Write calls: after any sequence of Write calls (pieces of
\* any length, empty ones too) they are those of a single Write of the same
\* bytes on a new splitter.
C18_SplitInvariant ==
    lsW = linesplitterWrite(NewWriter(ls.len, ls.sep), "", SubSeq(lsIn, 1, lsPos)).w

\* the whole input went through one byte at a time, with an empty piece
C18_Witness ==
    /\ lsPos = Len(lsIn)
    /\ lsPieces = <<1, 1, 0, 1, 1>>
    /\ ls.len = 3
    /\ ls.sep = "\r\n"
    /\ lsW = SubSeq(lsIn, 1, 3) \o "\r\n" \o SubSeq(lsIn, 4, 4)

\* the input with sep after every L-th byte and nowhere else
RECURSIVE Grouped(_, _, _)
Grouped(in, L, sep) ==
    IF Len(in) < L THEN in
    ELSE SubSeq(in, 1, L) \o sep \o Grouped(SubSeq(in, L + 1, Len(in)), L, sep)

\* C19: after N input bytes, the output is the input in order with the
\* separator after every L-th byte and nowhere else (floor(N/L) separators, a
\* trailing group shorter than L without one), also after Close.
C19_GroupsOfL ==
    /\ lsW = Grouped(SubSeq(lsIn, 1, lsPos), ls.len, ls.sep)
    /\ Len(lsW) = lsPos + (lsPos \div ls.len) * Len(ls.sep)

\* closed with a trailing group of one byte
C19_Witness ==
    /\ lsClosed
    /\ lsPos = 4
    /\ ls.len = 3
    /\ ls.count = 1
    /\ ls.sep = "\r\n"
    /\ Len(lsW) = 6

\* where the line p starts in the bytes s
Occurrences(s, p) == {i \in 1..(Len(s) - Len(p) + 1) : SubSeq(s, i, i + Len(p) - 1) = p}
ClosingLine(b) == "--" \o b \o "--" \o smtpCRLF
MultipartNodes(e, b) ==
    {i \in 1..Len(e.parts) :
        /\ e.parts[i].kind = "multi"
        /\ ParseMediaType(HeaderGet(e.parts[i].hdr, "Content-Type")).boundary = b}

\* C20: for every multipart node with boundary b the transcoder emits, after
\* the last sub-part, exactly one closing boundary line "--b--" followed by a
\* line break, and none before the last part.
C20_ClosingBoundary ==
    (copied.done /\ copied.err = NoErr /\ mail.kind = "multi") =>
        LET b == ParseMediaType(HeaderGet(mail.hdr, "Content-Type")).boundary
            at == Occurrences(copied.out, ClosingLine(b))
        IN  /\ at = {Len(copied.out) - Len(ClosingLine(b)) + 1}
            /\ Cardinality(Occurrences(copied.out, ClosingLine("in")))
                   = Cardinality(MultipartNodes(mail, "in"))

OpeningLine(b) == "--" \o b \o smtpCRLF
\* the i-th smallest element of a set of positions
IthOcc(S, i) == CHOOSE x \in S : Cardinality({y \in S : y < x}) = i - 1

\* C21: for every multipart node with boundary b and n sub-parts the output
\* has exactly n part-opening delimiter lines "--b" for that node, and the
\* sub-parts follow them in their input order.
C21_PartDelimiters ==
    (copied.done /\ copied.err = NoErr /\ mail.kind = "multi") =>
        LET b == ParseMediaType(HeaderGet(mail.hdr, "Content-Type")).boundary
            at == Occurrences(copied.out, OpeningLine(b))
        IN  /\ Cardinality(at) = Len(mail.parts)
            /\ Cardinality(Occurrences(copied.out, OpeningLine("in")))
                   = Cardinality(MultipartNodes(mail, "in"))
            /\ \A i \in 1..Len(mail.parts) :
                   LET from == IthOcc(at, i)
                       to == IF i < Len(mail.parts) THEN IthOcc(at, i + 1)
                             ELSE Len(copied.out) + 1
                   IN  Occurrences(SubSeq(copied.out, from, to - 1),
                           "Content-Type: "
                           \o HeaderGet(mail.parts[i].hdr, "Content-Type")
                           \o smtpCRLF) # {}

HTMLTypeLine == "Content-Type: text/html" \o smtpCRLF
QPLine == "Content-Transfer-Encoding: quoted-printable" \o smtpCRLF
\* the string s stands in out at position i
StandsAt(out, i, s) ==
    i >= 1 /\ i + Len(s) - 1 <= Len(out) /\ SubSeq(out, i, i + Len(s) - 1) = s

\* C22: every text/html leaf comes out declared quoted-printable (its body
\* is written through the quoted-printable encoder wherever it sits): in the
\* output each "Content-Type: text/html" header line has the line
\* "Content-Transfer-Encoding: quoted-printable" next to it in its header
\* block, as a sub-part, as a top-level body and in an embedded message.
C22_HTMLDeclaredQuotedPrintable ==
    (copied.done /\ copied.err = NoErr) =>
        \A i \in Occurrences(copied.out, HTMLTypeLine) :
            \/ StandsAt(copied.out, i - Len(QPLine), QPLine)
            \/ StandsAt(copied.out, i + Len(HTMLTypeLine), QPLine)

\* the header block mailCopy writes for e when the map is ranged in order ord
HeaderBlock(e, ord) ==
    LET h == IF ord = "rev" THEN Reverse(e.hdr) ELSE e.hdr
    IN  Flat([i \in 1..Len(h) |-> h[i].k \o ": " \o h[i].v \o smtpCRLF])

\* C23: for a text/html part declared base64 or quoted-printable the output
\* for the part is the quoted-printable encoding of the complete decoded
\* content, all of it at the destination when the transcoder returns: the
\* body of a top-level html message is the encoding of its content, and so is
\* what follows the part header of an html sub-part.
C23_HTMLContentComplete ==
    (copied.done /\ copied.err = NoErr) =>
        \A cte \in {"base64", "quoted-printable"}, c \in Contents :
            LET leaf == Leaf("text/html", cte, <<Encoded(cte, c)>>)
                qp == Encoded("quoted-printable", c)
            IN  /\ mail = leaf =>
                     copied.out = HeaderBlock(mail, hdrOrder) \o smtpCRLF \o qp
                /\ (mail.kind = "multi" /\ \E i \in 1..Len(mail.parts) :
                                               mail.parts[i] = leaf) =>
                     Occurrences(copied.out,
                         CreatePart("xyz", "text/html", "quoted-printable")
                         \o qp \o smtpCRLF) # {}

\* a single-part text/plain message with no special transfer encoding
IsPlainSingle(e) ==
    /\ e.kind = "leaf"
    /\ HeaderGet(e.hdr, "Content-Type") = "text/plain"
    /\ HeaderGet(e.hdr, "Content-Transfer-Encoding") \in {"", "7bit", "8bit"}
\* every header line came in as "Key: value" in canonical case
RawIsCanonical(e) ==
    \A i \in 1..Len(e.hdr) :
        e.hdr[i].raw = e.hdr[i].k \o ": " \o e.hdr[i].v \o smtpCRLF

\* C24 as stated: the output of a single-part text/plain message equals its
\* input byte for byte.
C24_PlainByteIdentical ==
    (copied.done /\ copied.err = NoErr /\ IsPlainSingle(mail)) =>
        copied.out = Flat(RawChunks(mail))

\* C24: for a single-part text/plain message with no special transfer
\* encoding the output is the header fields, each as "Key: value" with the
\* canonical key, in some order of the field names, a blank line, and the
\* body byte for byte; it equals the input when the header lines came in that
\* form and there is one of them (or they come out in input order).
C24_PlainBodyIdentical ==
    (copied.done /\ copied.err = NoErr /\ IsPlainSingle(mail)) =>
        /\ \E o \in HeaderOrders :
               copied.out = HeaderBlock(mail, o) \o smtpCRLF \o BodyBytes(mail)
        /\ (RawIsCanonical(mail) /\ (Len(mail.hdr) = 1 \/ hdrOrder = "fwd")) =>
               copied.out = Flat(RawChunks(mail))
C24_Witness ==
    /\ copied.done /\ copied.err = NoErr /\ IsPlainSingle(mail)
    /\ Len(mail.hdr) = 2 /\ hdrOrder = "rev" /\ RawIsCanonical(mail)
    /\ copied.out # Flat(RawChunks(mail))

\* a leaf that is neither text/html nor multipart nor message/rfc822
IsOtherLeaf(e) ==
    e.kind = "leaf" /\ HeaderGet(e.hdr, "Content-Type") = "text/plain"

\* C25: the body of every leaf that is neither text/html nor multipart nor
\* message/rfc822 is emitted byte for byte as received, whatever transfer
\* encoding it declares: as a top-level body it ends the output after the
\* blank line, as a sub-part it stands between the blank line of its part
\* header and the line break before the next delimiter.
C25_OtherLeafVerbatim ==
    (copied.done /\ copied.err = NoErr) =>
        /\ IsOtherLeaf(mail) =>
               StandsAt(copied.out,
                        Len(copied.out) - Len(BodyBytes(mail)) - 3,
                        smtpCRLF \o smtpCRLF \o BodyBytes(mail))
        /\ mail.kind = "multi" =>
               \A i \in 1..Len(mail.parts) :
                   IsOtherLeaf(mail.parts[i]) =>
                       Occurrences(copied.out,
                           smtpCRLF \o smtpCRLF \o BodyBytes(mail.parts[i])
                           \o smtpCRLF \o "--") # {}

UnknownEncoding == "x-uuencode"

\* C26: a part whose declared transfer encoding the transcoder does not
\* recognise never makes it return an error because of that encoding, and
\* its content is passed on undecoded: verbatim for a plain leaf, through
\* the quoted-printable encoder for an html leaf.
C26_UnknownEncodingPassed ==
    (copied.done /\ dst.failAt = 0) =>
        \A ct \in {"text/plain", "text/html"}, c \in Contents :
            LET leaf == Leaf(ct, UnknownEncoding, <<c>>)
                expect == IF ct = "text/html"
                          THEN Encoded("quoted-printable", c) ELSE c
                outCte == IF ct = "text/html"
                          THEN "quoted-printable" ELSE UnknownEncoding
            IN  /\ mail = leaf =>
                     /\ copied.err = NoErr
                     /\ copied.out = HeaderBlock(mail, hdrOrder) \o smtpCRLF \o expect
                /\ (mail.kind = "multi" /\ \E i \in 1..Len(mail.parts) :
                                               mail.parts[i] = leaf) =>
                     IF copied.err = NoErr
                     THEN Occurrences(copied.out,
                              CreatePart("xyz", ct, outCte) \o expect \o smtpCRLF) # {}
                     ELSE \E j \in 1..Len(mail.parts) :
                              HeaderGet(mail.parts[j].hdr, "Content-Type") = ""

\* a Write on the destination has failed
WriteFailed == dst.failAt # 0 /\ dst.nW >= dst.failAt

\* C29: the transcoder returns the first error it meets: when a write to the
\* destination failed, mailCopy returns the error of the earliest failing
\* write; when only a read failed, the error of that read.
C29_FirstErrorReturned ==
    copied.done =>
        /\ WriteFailed => copied.err = WriteErr(dst.failAt)
        /\ (~WriteFailed /\ mail = CorruptHTMLMsg) =>
               copied.err = "illegal base64 data"

\* C30: the byte count mailCopy returns is the number of bytes it wrote to
\* the destination writer, for every message shape.
C30_CountIsBytesWritten ==
    copied.done => copied.n = Len(copied.out)

\* C27: closing the session's upstream connection is idempotent: over any
\* sequence of Reset and Logout calls at most one QUIT goes upstream, and a
\* Reset or Logout on a session whose upstream is already closed changes
\* nothing upstream and returns no error.
C27_CloseIdempotent ==
    /\ login.quits <= 1
    /\ (/\ login.last.op \in {"Reset", "Logout"}
        /\ login.last.pre.upstream = "nil" \/ login.last.pre.conn = "closed") =>
           /\ login.last.ret \in {Nil, Void}
           /\ login.quits = login.last.pre.quits

CertConfigured == boot.in.certfile # "" /\ boot.in.privkeyfile # ""

\* C28 as stated: the process exits fatally at startup only when the
\* listener cannot bind or the configured certificate material is unreadable
\* or invalid.
C28_FatalOnlyBindOrCert ==
    boot.pc = "exited" => boot.fatal \in {"keypair", "parse", "listen"}

\* C28: the process exits fatally at startup only when the host name cannot
\* be read, when certificate and key are both configured and cannot be loaded
\* or parsed, when the debug transcript file that was asked for cannot be
\* opened, or when the listener fails; a missing certificate or key does not
\* end it: the server then listens without a TLS configuration.
C28_FatalCauses ==
    /\ boot.pc = "exited" =>
           \/ boot.fatal = "hostname" /\ boot.in.hostnameErr
           \/ /\ boot.fatal \in {"keypair", "parse"}
              /\ CertConfigured /\ (boot.in.loadErr \/ boot.in.parseErr)
           \/ boot.fatal = "debugfile" /\ boot.in.serverDebug # "" /\ boot.in.openErr
           \/ boot.fatal = "listen" /\ boot.in.listenErr
    /\ boot.pc \in {"listen", "serving"} => (boot.tlsConfig <=> CertConfigured)
C28_Witness ==
    /\ boot.pc = "exited" /\ boot.fatal = "debugfile"
    /\ ~CertConfigured /\ ~boot.tlsConfig

\* the entity has no Content-Type field
Untyped(e) == HeaderGet(e.hdr, "Content-Type") = ""

\* C31: a message or part without a Content-Type header is just copied
\* through: mailCopy returns no error on account of the missing header, and
\* the body bytes reach the destination unchanged.
C31_UntypedCopiedThrough ==
    (copied.done /\ dst.failAt = 0) =>
        /\ Untyped(mail) =>
               /\ copied.err = NoErr
               /\ copied.out = HeaderBlock(mail, hdrOrder) \o smtpCRLF \o BodyBytes(mail)
        /\ (mail.kind = "multi" /\ ~Untyped(mail)) =>
               \A i \in 1..Len(mail.parts) :
                   Untyped(mail.parts[i]) =>
                       /\ copied.err = NoErr
                       /\ Occurrences(copied.out,
                              smtpCRLF \o smtpCRLF \o BodyBytes(mail.parts[i])
                              \o smtpCRLF \o "--") # {}

\* the phase calls that carry credentials, the envelope or the message
GuardedOps == {"Auth", "Mail", "Rcpt", "Unknown", "DataCommand", "Data"}

\* C32: with require-upstream-TLS on, for every order of phase calls, no
\* Auth, Mail, Rcpt, Unknown or DATA command and no message body is sent to
\* the upstream while the upstream connection is plaintext.
C32_NoPlaintextUpstream ==
    (requireUpstreamTLS /\ last.op \in GuardedOps /\ ~last.pre.tls) =>
        last.r.ups = <<>>

\* C33: a session is blocked only if the Backend's require-upstream-TLS flag
\* is on: with the flag off no sequence of phase calls and upstream failures
\* sets the blocked flag, and Greet sends no STARTTLS upstream on its own.
C33_BlockedOnlyWhenRequired ==
    ~requireUpstreamTLS =>
        /\ ~blockUpstream
        /\ last.op = "Greet" =>
               \A i \in 1..Len(last.r.ups) : last.r.ups[i].op # "StartTLS"

\* flag off: a StartTLS the relay refused, then a Greet whose Hello succeeded
\* on the still plaintext connection of a relay that advertises STARTTLS
C33_Witness ==
    /\ ~requireUpstreamTLS
    /\ last.op = "Greet"
    /\ last.prevOp = "StartTLS"
    /\ ~last.pre.tls
    /\ last.r.reps[1].err = NoErr
    /\ "STARTTLS" \in caps
    /\ ~isTLS
    /\ ~blockUpstream

\* C34: when require-upstream-TLS is on and the eager StartTLS inside Greet
\* succeeds, the code and message Greet returns to the client are the ones
\* the upstream gave in answer to Hello, not those of the STARTTLS exchange,
\* and the error is nil.
C34_GreetingReturnedAfterEagerTLS ==
    (/\ last.op = "Greet"
     /\ requireUpstreamTLS
     /\ last.r.eager.tried
     /\ last.r.eager.ret.err = NoErr) =>
        /\ last.r.ret.code = last.r.reps[1].code
        /\ last.r.ret.msg = last.r.reps[1].msg
        /\ last.r.ret.err = NoErr

\* C35: linesplitter.Write reports a byte count n with 0 <= n <= len(in),
\* equal to the number of input bytes it consumed; the separator bytes it
\* inserts are not counted.
C35_WriteCountsInput ==
    lsPieces # <<>> =>
        /\ 0 <= lsRet /\ lsRet <= lsPieces[Len(lsPieces)]
        /\ lsRet = lsPieces[Len(lsPieces)]

\* C36: linesplitter.Write terminates on every finite input for every chunk
\* length L >= 0 and every count reachable from earlier Writes, and after
\* each Write the retained count satisfies 0 <= count < L when L >= 1.
C36_WriteTerminates ==
    /\ ~lsHung
    /\ ls.len >= 1 => (0 <= ls.count /\ ls.count < ls.len)

\* C37: errToSmtpErr leaves the error it is given unchanged, so translating
\* the same error value a second time yields the same triple (numeric code,
\* enhanced code, message) as the first time.
C37_TranslateLeavesError ==
    translated =>
        /\ theErr = errGiven
        /\ errToSmtpErr(theErr).ret = smtpErr

\* the header lines a sub-part is to come out with: those it had on input, a
\* text/html part's Content-Transfer-Encoding being quoted-printable
FieldLine(k, v) == k \o ": " \o v \o smtpCRLF
ExpectedFields(p) ==
    IF HasPrefix(HeaderGet(p.hdr, "Content-Type"), "text/html")
    THEN {FieldLine(p.hdr[j].k, p.hdr[j].v) :
              j \in {x \in 1..Len(p.hdr) : p.hdr[x].k # "Content-Transfer-Encoding"}}
         \cup {QPLine}
    ELSE {FieldLine(p.hdr[j].k, p.hdr[j].v) : j \in 1..Len(p.hdr)}
\* the lines of F one after the other, in every order
Orderings(F) ==
    {Flat(q) : q \in {x \in [1..Cardinality(F) -> F] :
                          \A a, b \in 1..Cardinality(F) : a # b => x[a] # x[b]}}

\* C38: for every sub-part of a multipart node the set of header fields
\* emitted for the part equals the set of header fields the part had on
\* input, except that a text/html part's Content-Transfer-Encoding becomes
\* quoted-printable: no other field is dropped and none is added.
C38_PartHeadersKept ==
    (copied.done /\ copied.err = NoErr /\ mail.kind = "multi") =>
        LET b == ParseMediaType(HeaderGet(mail.hdr, "Content-Type")).boundary
            at == Occurrences(copied.out, OpeningLine(b))
        IN  \A i \in 1..Len(mail.parts) :
                \E block \in Orderings(ExpectedFields(mail.parts[i])) :
                    StandsAt(copied.out, IthOcc(at, i),
                             OpeningLine(b) \o block \o smtpCRLF)

\* C39: in the Login-based variants, after any sequence of Mail, Rcpt, Data
\* and Reset calls on a logged-in session, a following Mail, Rcpt or Data
\* call is never executed against a nil upstream client: the session stays
\* usable for a further message after Reset.
C39_UsableAfterReset ==
    (login.last.op \in {"Mail", "Rcpt", "Data"} /\ ~login.last.pre.loggedOut) =>
        /\ login.last.pre.upstream # "nil"
        /\ ~login.panicked

====
